---- MODULE Spec2Model ----
(***************************************************************************)
(* A model of the TES client (src/src/v1/client.rs): the five endpoint     *)
(* operations, the GET and POST request paths with their retry loops       *)
(* (tokio_retry2's Retry::spawn_notify driven by the caller's schedule),   *)
(* the view-keyed decoding of responses, and the pagination loops of the   *)
(* example programs (src/examples/status-table.rs, task-list-all.rs).      *)
(*                                                                         *)
(* The transport and the server are the environment: every attempt is      *)
(* answered by a response chosen from Responses.                           *)
(***************************************************************************)
EXTENDS Integers, Sequences, FiniteSets, TLC

VARIABLES
    pc,        \* position of the call: idle, ready, inflight, sleeping, done
    req,       \* the request built by the operation (endpoint, target type)
    schedule,  \* the retry schedule as the caller passed it
    retries,   \* what is left of the schedule's iterator
    attempts,  \* number of network attempts started (requests sent)
    log,       \* the transport's record: the kind of each response, in order
    last,      \* the response to the latest attempt
    result,    \* the value the call returned to its caller
    args,      \* the operation called and its arguments
    notified,  \* the durations notify_retry was invoked with, in order
    warnings,  \* the durations notify_retry logged a warning for, in order
    wpc,       \* position of the pagination loop: off, loop, calling, done
    walker,    \* which example's loop runs
    server,    \* the pages the server holds for the walk
    last_token,\* the loop's last_token
    calls,     \* the page_token of every list_tasks call of the walk, in order
    served,    \* the token on every page the server sent in full, in order
    printed,   \* task-list-all: the responses printed, in order
    states,    \* status-table: the tally of task states
    wresult,   \* what the loop's function returned
    bpc,       \* position of the builder's owner: off, building, built, failed, panicked
    builder,   \* the client Builder
    built,     \* what Builder::try_build returned
    given,     \* the URL last handed to Builder::url
    info,      \* a ServiceInfo value
    serialized,   \* the JSON text serde_json::to_string made of info
    deserialized, \* what serde_json::from_str made of serialized
    response,  \* a TaskResponse value
    accessed,  \* the accessor last called on response and what it returned
    concurrent,\* the calls running concurrently on one client
    joined     \* the endpoint last joined to a client's base URL and the outcome

vars == <<pc, req, schedule, retries, attempts, log, last, result, args,
          notified, warnings,
          wpc, walker, server, last_token, calls, served, printed, states, wresult,
          bpc, builder, built, given, info, serialized, deserialized,
          response, accessed, concurrent, joined>>

callVars == <<pc, req, schedule, retries, attempts, log, last, result, args,
              notified, warnings>>
walkVars == <<wpc, walker, server, last_token, calls, served, printed, states, wresult>>
buildVars == <<bpc, builder, built, given>>
codecVars == <<info, serialized, deserialized>>
accessVars == <<response, accessed>>

\* what a single call and the pagination loops leave alone
standby == <<buildVars, codecVars, accessVars, concurrent, joined>>

(***************************************************************************)
(* Bounds of the model.                                                    *)
(***************************************************************************)
MaxRetries == 2     \* longest retry schedule a standalone call is given
MaxPages == 3       \* most pages a server holds in a walk
MaxCalls == 4       \* most list_tasks calls of a walk that are followed

(***************************************************************************)
(* Program constants.                                                      *)
(***************************************************************************)
DEFAULT_PAGE_SIZE == 256
MAX_PAGE_SIZE == 2048
DEFAULT_CONNECT_TIMEOUT == 60    \* seconds
DEFAULT_READ_TIMEOUT == 60       \* seconds

None == "None"      \* Option::None

Views == {"Minimal", "Basic", "Full"}

\* #[default] Minimal
DefaultView == "Minimal"

\* Option::unwrap_or / unwrap_or_default
UnwrapOr(opt, dflt) == IF opt = None THEN dflt ELSE opt

\* Option<u16>::unwrap_or
UnwrapOrU16(opt, dflt) == IF opt = <<>> THEN dflt ELSE opt[1]

\* serde(rename_all = "SCREAMING_SNAKE_CASE") on View
ViewQueryName(v) ==
    CASE v = "Minimal" -> "MINIMAL"
      [] v = "Basic" -> "BASIC"
      [] v = "Full" -> "FULL"

(***************************************************************************)
(* Inputs the callers draw from.                                           *)
(***************************************************************************)
Waits == {0, 1, 2}                       \* durations, in seconds
\* Option<u16>: <<>> is None, <<n>> is Some(n)
PageSizes == {<<>>, <<1>>, <<256>>, <<2047>>, <<2048>>, <<2049>>, <<65535>>}
PageTokens == {None, "abc"}
TaskIds == {"a"}

RECURSIVE SeqsUpTo(_, _)
SeqsUpTo(S, n) ==
    IF n = 0 THEN {<<>>}
    ELSE LET shorter == SeqsUpTo(S, n - 1)
         IN shorter \cup {Append(s, x) : s \in {t \in shorter : Len(t) = n - 1}, x \in S}

Schedules == SeqsUpTo(Waits, MaxRetries)

\* Option<&ListTasksParams>, Option<&GetTaskParams>: <<>> is None, <<p>> is Some(p)
ListParams ==
    {<<>>} \cup {<<p>> : p \in [page_size : PageSizes, page_token : PageTokens,
                                view : {None} \cup Views]}

GetParams == {<<>>} \cup {<<p>> : p \in [view : Views]}

(***************************************************************************)
(* Response bodies.  A body is not JSON at all ("invalid"), the JSON null, *)
(* or a JSON object; of an object the model keeps the keys the client's    *)
(* types read (absent keys are None), and `name` stands for every key      *)
(* beyond id and state that a basic or full task carries.                  *)
(***************************************************************************)
TaskObj(id, state, name, executors) ==
    [id |-> id, state |-> state, name |-> name, executors |-> executors]

Body(json, t, hasTasks, tasks, next, svc) ==
    [json |-> json, id |-> t.id, state |-> t.state, name |-> t.name,
     executors |-> t.executors, hasTasks |-> hasTasks, tasks |-> tasks,
     next |-> next, svc |-> svc]

NoTask == TaskObj(None, None, None, None)
MinimalShaped(id, state) == TaskObj(id, state, None, None)
FullShaped(id, state) == TaskObj(id, state, "name", "executors")

NoBody == Body("invalid", NoTask, FALSE, <<>>, None, FALSE)
NullBody == Body("null", NoTask, FALSE, <<>>, None, FALSE)
EmptyObject == Body("object", NoTask, FALSE, <<>>, None, FALSE)
TaskBody(t) == Body("object", t, FALSE, <<>>, None, FALSE)
InfoBody == Body("object", MinimalShaped("org.ga4gh.myservice", None), FALSE, <<>>, None, TRUE)
PageBody(tasks, next) == Body("object", NoTask, TRUE, tasks, next, FALSE)

Bodies ==
    { NoBody, NullBody, EmptyObject, InfoBody,
      TaskBody(MinimalShaped("a", "RUNNING")),
      TaskBody(FullShaped("a", "COMPLETE")),
      TaskBody(TaskObj(None, "QUEUED", "name", "executors")),
      PageBody(<<>>, None),
      PageBody(<<MinimalShaped("a", "RUNNING")>>, "abc"),
      PageBody(<<FullShaped("a", "COMPLETE"), FullShaped("b", "RUNNING")>>, None),
      PageBody(<<FullShaped("a", "COMPLETE"), MinimalShaped("b", "RUNNING")>>, "abc") }

(***************************************************************************)
(* Decoded values.                                                         *)
(***************************************************************************)
Item(tag, t) ==
    [tag |-> tag, id |-> t.id, state |-> t.state, name |-> t.name,
     executors |-> t.executors]

Value(type, tag, t, tasks, next) ==
    [type |-> type, tag |-> tag, id |-> t.id, state |-> t.state, name |-> t.name,
     executors |-> t.executors, tasks |-> tasks, next_page_token |-> next]

NoValue == Value(None, None, NoTask, <<>>, None)

\* a MinimalTask with serde(deny_unknown_fields)
MinimalTaskOkDenyUnknown(t) == t.id # None /\ t.name = None /\ t.executors = None

\* MinimalTask: id is required, state is optional, other keys are ignored
MinimalTaskOk(t) == t.id # None
MinimalTaskOf(t) == TaskObj(t.id, t.state, None, None)

\* responses::Task: executors is the one key that is neither optional nor
\* defaulted
TaskOk(t) == t.executors # None
TaskOf(t) == TaskObj(t.id, t.state, t.name, t.executors)

ElemOk(target, t) ==
    IF target = "ListTasks<MinimalTask>" THEN MinimalTaskOk(t) ELSE TaskOk(t)
ElemOf(target, t) ==
    IF target = "ListTasks<MinimalTask>" THEN MinimalTaskOf(t) ELSE TaskOf(t)

\* serde_json decoding of a body into the type T of get::<T> / post::<T>
Decodable(target, b) ==
    CASE target = "Unit" -> b.json = "null"
      [] target = "ServiceInfo" -> b.json = "object" /\ b.svc
      [] target = "CreatedTask" -> b.json = "object" /\ b.id # None
      [] target = "MinimalTask" -> b.json = "object" /\ MinimalTaskOk(b)
      [] target = "Task" -> b.json = "object" /\ TaskOk(b)
      [] target \in {"ListTasks<MinimalTask>", "ListTasks<Task>"} ->
            /\ b.json = "object"
            /\ b.hasTasks
            /\ \A i \in 1..Len(b.tasks) : ElemOk(target, b.tasks[i])

Decoded(target, b) ==
    CASE target = "Unit" -> Value("Unit", None, NoTask, <<>>, None)
      [] target = "ServiceInfo" -> Value("ServiceInfo", None, MinimalTaskOf([b EXCEPT !.state = None]), <<>>, None)
      [] target = "CreatedTask" -> Value("CreatedTask", None, MinimalTaskOf([b EXCEPT !.state = None]), <<>>, None)
      [] target = "MinimalTask" -> Value("MinimalTask", None, MinimalTaskOf(b), <<>>, None)
      [] target = "Task" -> Value("Task", None, TaskOf(b), <<>>, None)
      [] target \in {"ListTasks<MinimalTask>", "ListTasks<Task>"} ->
            Value(target, None, NoTask,
                  [i \in 1..Len(b.tasks) |-> Item(None, ElemOf(target, b.tasks[i]))],
                  b.next)

(***************************************************************************)
(* Requests and responses.                                                 *)
(***************************************************************************)
\* The endpoint joined to the base URL and the type the answer is decoded
\* into.  path is the endpoint's path, segment by segment; view, page_token
\* and page_size are the query string's parameters (absent: None, <<>>).
\* body is the JSON text a POST carries.
Request(op, method, path, view, page_token, page_size, body, target, tag) ==
    [op |-> op, method |-> method, path |-> path, view |-> view,
     page_token |-> page_token, page_size |-> page_size, body |-> body,
     target |-> target, tag |-> tag]

NoRequest == Request(None, None, <<>>, None, None, <<>>, None, None, None)

\* 300 stands for the statuses below 200 and from 300 to 399 that reqwest
\* hands to the caller (it follows only a 301, 302, 303, 307 or 308 that
\* names a Location)
Statuses == {200, 300, 404, 500}

\* StatusCode::is_server_error, is_client_error, is_success
is_server_error(status) == status >= 500 /\ status <= 599
is_client_error(status) == status >= 400 /\ status <= 499
is_success(status) == status >= 200 /\ status <= 299

\* Response::error_for_status is an error exactly for 4xx and 5xx
error_for_status_is_err(status) == is_client_error(status) \/ is_server_error(status)

\* A response: conn is whether any response arrived; recv is whether the
\* body's bytes arrived in full.
Response(conn, status, recv, body) ==
    [conn |-> conn, status |-> status, recv |-> recv, body |-> body]

NoResponse == Response(FALSE, 0, FALSE, NoBody)
ConnFail == Response(FALSE, 0, FALSE, NoBody)

Responses ==
    {ConnFail}
    \cup {Response(TRUE, s, FALSE, NoBody) : s \in Statuses}
    \cup {Response(TRUE, s, TRUE, b) :
            s \in {t \in Statuses : ~error_for_status_is_err(t)}, b \in Bodies}

\* What the transport saw of an attempt, for the record kept in log
Kind(target, r) ==
    IF ~r.conn THEN "conn_fail"
    ELSE IF r.status >= 500 THEN "server_error"
    ELSE IF r.status >= 400 THEN "client_error"
    ELSE IF ~r.recv THEN "recv_fail"
    ELSE IF ~Decodable(target, r.body) THEN "bad_body"
    ELSE "ok"

(***************************************************************************)
(* What a call returns: Ok(value) or one of the variants of Error.  For an *)
(* error that came from an attempt, attempt is that attempt's number and   *)
(* cause the reqwest error's origin.                                       *)
(***************************************************************************)
Result(kind, value, attempt, cause) ==
    [kind |-> kind, value |-> value, attempt |-> attempt, cause |-> cause]

NoResult == Result(None, NoValue, 0, None)
Ok(v, n) == Result("Ok", v, n, None)
Err(kind, n, cause) == Result(kind, NoValue, n, cause)

(***************************************************************************)
(* One run of the closure given to Retry::spawn_notify.                    *)
(***************************************************************************)
Outcome(class, cause) == [class |-> class, cause |-> cause]

\* a closure that marks the error of error_for_status transient
GetAttemptClientErrorTransient(r) ==
    IF ~r.conn THEN Outcome("transient", "request")
    ELSE IF error_for_status_is_err(r.status) THEN Outcome("transient", "status")
    ELSE IF ~r.recv THEN Outcome("transient", "body")
    ELSE Outcome("ok", None)

\* a closure that marks the failure of bytes() permanent
GetAttemptBodyFailurePermanent(r) ==
    IF ~r.conn THEN Outcome("transient", "request")
    ELSE IF is_server_error(r.status) THEN Outcome("transient", "status")
    ELSE IF error_for_status_is_err(r.status) THEN Outcome("permanent", "status")
    ELSE IF ~r.recv THEN Outcome("permanent", "body")
    ELSE Outcome("ok", None)

GetAttempt(r) ==
    IF ~r.conn THEN Outcome("transient", "request")
    ELSE IF is_server_error(r.status) THEN Outcome("transient", "status")
    ELSE IF error_for_status_is_err(r.status) THEN Outcome("permanent", "status")
    ELSE IF ~r.recv THEN Outcome("transient", "body")
    ELSE Outcome("ok", None)

\* a closure that marks the failure of json::<T>() permanent
PostAttemptBodyFailurePermanent(target, r) ==
    IF ~r.conn THEN Outcome("transient", "request")
    ELSE IF is_server_error(r.status) THEN Outcome("transient", "status")
    ELSE IF error_for_status_is_err(r.status) THEN Outcome("permanent", "status")
    ELSE IF ~r.recv \/ ~Decodable(target, r.body) THEN Outcome("permanent", "decode")
    ELSE Outcome("ok", None)

PostAttempt(target, r) ==
    IF ~r.conn THEN Outcome("transient", "request")
    ELSE IF is_server_error(r.status) THEN Outcome("transient", "status")
    ELSE IF error_for_status_is_err(r.status) THEN Outcome("permanent", "status")
    ELSE IF ~r.recv THEN Outcome("transient", "body")
    ELSE IF ~Decodable(target, r.body) THEN Outcome("transient", "decode")
    ELSE Outcome("ok", None)

\* a closure without the server-error case: every error status is permanent
AttemptServerErrorPermanent(rq, r) ==
    IF ~r.conn THEN Outcome("transient", "request")
    ELSE IF error_for_status_is_err(r.status) THEN Outcome("permanent", "status")
    ELSE IF rq.method = "GET" THEN GetAttempt(r)
    ELSE PostAttempt(rq.target, r)

\* a get() that decodes inside the closure, as post() does
AttemptDecodeInClosure(rq, r) == PostAttempt(rq.target, r)

Attempt(rq, r) ==
    IF rq.method = "GET" THEN GetAttempt(r) ELSE PostAttempt(rq.target, r)

\* a Retry that gives up one wait early
RetryDecisionOffByOne(outcome, rest) ==
    IF outcome.class = "transient" /\ Len(rest) > 1 THEN "sleep" ELSE "return"

\* Retry's decision on the closure's outcome: "return" or "sleep"
RetryDecision(outcome, rest) ==
    IF outcome.class = "transient" /\ rest # <<>> THEN "sleep" ELSE "return"

\* a wrapper that picks the variant from the payload's shape
TaggedByShape(rq, v) ==
    LET shape(t) == IF t.executors # None THEN "Full" ELSE "Minimal"
    IN CASE rq.op = "list_tasks" ->
               [v EXCEPT !.type = "ListTasks<TaskResponse>",
                         !.tasks = [i \in 1..Len(v.tasks) |->
                                       [v.tasks[i] EXCEPT !.tag = shape(v.tasks[i])]]]
         [] rq.op = "get_task" -> [v EXCEPT !.type = "TaskResponse", !.tag = shape(v)]
         [] OTHER -> v

\* list_tasks maps every task of the page into the variant of the view;
\* get_task wraps the decoded task in it
Tagged(rq, v) ==
    CASE rq.op = "list_tasks" ->
            [v EXCEPT !.type = "ListTasks<TaskResponse>",
                      !.tasks = [i \in 1..Len(v.tasks) |->
                                    [v.tasks[i] EXCEPT !.tag = rq.tag]]]
      [] rq.op = "get_task" -> [v EXCEPT !.type = "TaskResponse", !.tag = rq.tag]
      [] OTHER -> v

\* a get() that wraps the error of a transient failure in a kind of its own
GetReturnRetriesExhausted(rq, r, outcome, n) ==
    IF outcome.class = "transient" THEN Err("RetriesExhausted", n, outcome.cause)
    ELSE IF outcome.class # "ok" THEN Err("Reqwest", n, outcome.cause)
    ELSE IF ~Decodable(rq.target, r.body) THEN Err("SerdeJSON", n, None)
    ELSE Ok(Tagged(rq, Decoded(rq.target, r.body)), n)

\* What get() returns once the retry loop has returned
GetReturn(rq, r, outcome, n) ==
    IF outcome.class # "ok" THEN Err("Reqwest", n, outcome.cause)
    ELSE IF ~Decodable(rq.target, r.body) THEN Err("SerdeJSON", n, None)
    ELSE Ok(Tagged(rq, Decoded(rq.target, r.body)), n)

\* a post() that reports success for every answer with a success status
PostReturnOkOnSuccessStatus(rq, r, outcome, n) ==
    IF r.conn /\ is_success(r.status) THEN Ok(Decoded(rq.target, r.body), n)
    ELSE IF outcome.class # "ok" THEN Err("Reqwest", n, outcome.cause)
    ELSE Ok(Decoded(rq.target, r.body), n)

\* What post() returns once the retry loop has returned
PostReturn(rq, r, outcome, n) ==
    IF outcome.class # "ok" THEN Err("Reqwest", n, outcome.cause)
    ELSE Ok(Decoded(rq.target, r.body), n)

Return(rq, r, outcome, n) ==
    IF rq.method = "GET" THEN GetReturn(rq, r, outcome, n)
    ELSE PostReturn(rq, r, outcome, n)

(***************************************************************************)
(* The operations of Client.  Each either returns at once (a validation    *)
(* error) or hands its request and the caller's schedule to get()/post().  *)
(***************************************************************************)
\* encodes is whether the encoder accepts the arguments:
\* serde_url_params::to_string(params) for the query of list_tasks and
\* get_task, serde_json::to_string(&body) for the body of post()
Args(op, id, lparams, gparams, encodes) ==
    [op |-> op, id |-> id, lparams |-> lparams, gparams |-> gparams,
     encodes |-> encodes]

NoArgs == Args(None, None, <<>>, <<>>, TRUE)

\* a get()/post() that falls back to three retries when given none
EnterDefaultRetries(a, rq, s) ==
    /\ pc' = "ready"
    /\ args' = a
    /\ req' = rq
    /\ schedule' = s
    /\ retries' = IF s = <<>> THEN <<1, 1, 1>> ELSE s
    /\ attempts' = 0
    /\ log' = <<>>
    /\ last' = NoResponse
    /\ result' = NoResult
    /\ notified' = <<>>
    /\ warnings' = <<>>

\* get()/post() up to the first run of the closure
Enter(a, rq, s) ==
    /\ pc' = "ready"
    /\ args' = a
    /\ req' = rq
    /\ schedule' = s
    /\ retries' = s
    /\ attempts' = 0
    /\ log' = <<>>
    /\ last' = NoResponse
    /\ result' = NoResult
    /\ notified' = <<>>
    /\ warnings' = <<>>

\* an early return of an operation, before get()/post() is entered
Reject(a, e, s) ==
    /\ pc' = "done"
    /\ args' = a
    /\ req' = NoRequest
    /\ schedule' = s
    /\ retries' = s
    /\ attempts' = 0
    /\ log' = <<>>
    /\ last' = NoResponse
    /\ result' = e
    /\ notified' = <<>>
    /\ warnings' = <<>>

service_info(s) ==
    Enter(Args("service_info", None, <<>>, <<>>, TRUE),
          Request("service_info", "GET", <<"service-info">>, None, None, <<>>,
                  None, "ServiceInfo", None),
          s)

\* the bound taken as inclusive
PageSizeInvalidInclusiveBound(params) ==
    /\ params # <<>>
    /\ UnwrapOrU16(params[1].page_size, DEFAULT_PAGE_SIZE) > MAX_PAGE_SIZE

\* params.page_size.unwrap_or(DEFAULT_PAGE_SIZE) >= MAX_PAGE_SIZE
PageSizeInvalid(params) ==
    /\ params # <<>>
    /\ UnwrapOrU16(params[1].page_size, DEFAULT_PAGE_SIZE) >= MAX_PAGE_SIZE

\* params.and_then(|p| p.view).unwrap_or_default()
ListView(params) ==
    IF params = <<>> THEN DefaultView ELSE UnwrapOr(params[1].view, DefaultView)

ListTarget(view) ==
    IF view = "Minimal" THEN "ListTasks<MinimalTask>" ELSE "ListTasks<Task>"

\* "tasks?{params}" with the absent fields skipped, or "tasks"
ListRequest(params) ==
    Request("list_tasks", "GET", <<"tasks">>,
            IF params = <<>> \/ params[1].view = None THEN None
            ELSE ViewQueryName(params[1].view),
            IF params = <<>> THEN None ELSE params[1].page_token,
            IF params = <<>> THEN <<>> ELSE params[1].page_size,
            None, ListTarget(ListView(params)), ListView(params))

\* a list_tasks that encodes its parameters before it looks at the page size
list_tasks_encoding_first(params, encodes, s) ==
    IF params # <<>> /\ ~encodes
    THEN Reject(Args("list_tasks", None, params, <<>>, encodes),
                Err("SerdeParams", 0, None), s)
    ELSE IF PageSizeInvalid(params)
    THEN Reject(Args("list_tasks", None, params, <<>>, encodes),
                Err("InvalidRequest", 0, None), s)
    ELSE Enter(Args("list_tasks", None, params, <<>>, encodes), ListRequest(params), s)

list_tasks(params, encodes, s) ==
    IF PageSizeInvalid(params)
    THEN Reject(Args("list_tasks", None, params, <<>>, encodes),
                Err("InvalidRequest", 0, None), s)
    \* serde_url_params::to_string(params)?
    ELSE IF params # <<>> /\ ~encodes
    THEN Reject(Args("list_tasks", None, params, <<>>, encodes),
                Err("SerdeParams", 0, None), s)
    ELSE Enter(Args("list_tasks", None, params, <<>>, encodes), ListRequest(params), s)

\* params.map(|p| p.view).unwrap_or_default()
GetView(params) == IF params = <<>> THEN DefaultView ELSE params[1].view

GetTarget(view) == IF view = "Minimal" THEN "MinimalTask" ELSE "Task"

\* "tasks/{id}?{params}" or "tasks/{id}"
GetRequest(id, params) ==
    Request("get_task", "GET", <<"tasks", id>>,
            IF params = <<>> THEN None ELSE ViewQueryName(params[1].view),
            None, <<>>, None, GetTarget(GetView(params)), GetView(params))

get_task(id, params, encodes, s) ==
    \* serde_url_params::to_string(params)?
    IF params # <<>> /\ ~encodes
    THEN Reject(Args("get_task", id, <<>>, params, encodes), Err("SerdeParams", 0, None), s)
    ELSE Enter(Args("get_task", id, <<>>, params, encodes), GetRequest(id, params), s)

\* post() with the task as its body
create_task(encodes, s) ==
    \* serde_json::to_string(&body)?
    IF ~encodes
    THEN Reject(Args("create_task", None, <<>>, <<>>, encodes), Err("SerdeJSON", 0, None), s)
    ELSE Enter(Args("create_task", None, <<>>, <<>>, encodes),
               Request("create_task", "POST", <<"tasks">>, None, None, <<>>,
                       "task", "CreatedTask", None),
               s)

\* post() with () as its body, which serde_json::to_string makes "null" of
cancel_task(id, s) ==
    Enter(Args("cancel_task", id, <<>>, <<>>, TRUE),
          Request("cancel_task", "POST", <<"tasks", id, ":cancel">>, None, None, <<>>,
                  "null", "Unit", None),
          s)

(***************************************************************************)
(* The retry loop (Retry::spawn_notify) of get() and post().               *)
(***************************************************************************)
\* the closure sends the request
Send ==
    /\ pc = "ready"
    /\ pc' = "inflight"
    /\ attempts' = attempts + 1
    /\ UNCHANGED <<req, schedule, retries, log, last, result, args, notified, warnings>>

RECURSIVE Sum(_)
Sum(s) == IF s = <<>> THEN 0 ELSE Head(s) + Sum(Tail(s))

\* the duration Retry has accumulated: the waits it has taken so far
Elapsed(s, rest) == Sum(s) - Sum(rest)

\* a hook that warns on every invocation
notify_retry_always(w, duration) == Append(w, duration)

\* notify_retry: a warning unless the duration is zero
notify_retry(w, duration) == IF duration # 0 THEN Append(w, duration) ELSE w

\* the attempt's answer r arrives: the closure classifies it; on a transient
\* error Retry invokes the hook with its accumulated duration; Retry returns
\* or takes the next wait of the schedule and sleeps; once Retry has
\* returned, get()/post() and the operation return too
Respond(r) ==
    /\ pc = "inflight"
    /\ log' = Append(log, Kind(req.target, r))
    /\ last' = r
    /\ LET outcome == Attempt(req, r)
       IN /\ IF outcome.class = "transient"
             THEN /\ notified' = Append(notified, Elapsed(schedule, retries))
                  /\ warnings' = notify_retry(warnings, Elapsed(schedule, retries))
             ELSE UNCHANGED <<notified, warnings>>
          /\ IF RetryDecision(outcome, retries) = "sleep"
             THEN /\ pc' = "sleeping"
                  /\ retries' = Tail(retries)
                  /\ UNCHANGED result
             ELSE /\ pc' = "done"
                  /\ result' = Return(req, r, outcome, attempts)
                  /\ UNCHANGED retries
    /\ UNCHANGED <<req, schedule, attempts, args>>

\* a sleep that is never woken
WakeLost ==
    /\ pc = "sleeping"
    /\ UNCHANGED <<pc, req, schedule, retries, attempts, log, last, result, args,
                   notified, warnings>>

\* a Retry that takes a wait when it goes to sleep and another when it wakes
WakeTakingWait ==
    /\ pc = "sleeping"
    /\ pc' = "ready"
    /\ retries' = IF retries = <<>> THEN retries ELSE Tail(retries)
    /\ UNCHANGED <<req, schedule, attempts, log, last, result, args,
                   notified, warnings>>

\* the wait has elapsed
Wake ==
    /\ pc = "sleeping"
    /\ pc' = "ready"
    /\ UNCHANGED <<req, schedule, retries, attempts, log, last, result, args,
                   notified, warnings>>

(***************************************************************************)
(* A caller making one call on the client; the transport answers each      *)
(* attempt with any response.                                              *)
(***************************************************************************)
NoCounts == [x \in {} |-> 0]

\* what a loop's function returned: Ok(()), an error, or a panic
WResult(kind) == [kind |-> kind, value |-> <<>>]

NoWalk ==
    /\ wpc = "off"
    /\ walker = None
    /\ server = <<>>
    /\ last_token = None
    /\ calls = <<>>
    /\ served = <<>>
    /\ printed = <<>>
    /\ states = NoCounts
    /\ wresult = WResult(None)

\* no call has been made
NoCall ==
    /\ pc = "idle"
    /\ args = NoArgs
    /\ req = NoRequest
    /\ schedule = <<>>
    /\ retries = <<>>
    /\ attempts = 0
    /\ log = <<>>
    /\ last = NoResponse
    /\ result = NoResult
    /\ notified = <<>>
    /\ warnings = <<>>

\* Result<Client, builder::Error>: Ok(client), or Missing(field), Reqwest, Url
BuildResult(kind, field, client) == [kind |-> kind, field |-> field, client |-> client]

NotBuilt == BuildResult(None, None, <<>>)

\* Builder::default(): Option<Url> and Option<Duration> as <<>> or <<x>>,
\* the HeaderMap as a set of <<name, value>>
DefaultBuilder ==
    [url |-> <<>>, headers |-> {}, connect_timeout |-> <<>>, read_timeout |-> <<>>]

\* no builder is in use
NoBuild ==
    /\ bpc = "off"
    /\ builder = DefaultBuilder
    /\ built = NotBuilt
    /\ given = <<>>

\* serde_json::Result<ServiceInfo>: Ok(<<value>>) or Err
Converted(kind, value) == [kind |-> kind, value |-> value]

NotConverted == Converted(None, <<>>)

\* no ServiceInfo is converted
NoCodec ==
    /\ info = <<>>
    /\ serialized = <<>>
    /\ deserialized = NotConverted

\* what an accessor of TaskResponse was called on and what it returned
Access(fn, self, out) == [fn |-> fn, self |-> self, out |-> out]

NotAccessed == Access(None, Item(None, NoTask), <<>>)

\* no TaskResponse is held
NoAccess ==
    /\ response = <<>>
    /\ accessed = NotAccessed

\* no calls run concurrently
NoPair == concurrent = <<>>

\* what Url::join(endpoint).unwrap() gave: Ok(<<url>>), or a panic
JoinResult(kind, u) == [kind |-> kind, url |-> u]

\* a join: the base URL, the operation and the id it was given, the endpoint
\* string it made, the variant of TaskResponse the operation wraps its
\* answer in (None for the operations without a view), and the outcome
Joined(base, op, id, endpoint, tag, out) ==
    [base |-> base, op |-> op, id |-> id, endpoint |-> endpoint, tag |-> tag,
     out |-> out]

NotJoined == Joined(<<>>, None, <<>>, <<>>, None, JoinResult(None, <<>>))

\* no endpoint is joined
NoJoin == joined = NotJoined

\* the builder, the values of the response types, the concurrent calls and
\* the joined URLs play no part
Standby ==
    /\ NoBuild
    /\ NoCodec
    /\ NoAccess
    /\ NoPair
    /\ NoJoin

Init ==
    /\ NoCall
    /\ NoWalk
    /\ Standby

CallServiceInfo ==
    /\ wpc = "off" /\ pc = "idle"
    /\ \E s \in Schedules : service_info(s)
    /\ UNCHANGED <<walkVars, standby>>

CallListTasks ==
    /\ wpc = "off" /\ pc = "idle"
    /\ \E params \in ListParams, encodes \in BOOLEAN, s \in Schedules :
          /\ params = <<>> => encodes
          /\ list_tasks(params, encodes, s)
    /\ UNCHANGED <<walkVars, standby>>

CallGetTask ==
    /\ wpc = "off" /\ pc = "idle"
    /\ \E id \in TaskIds, params \in GetParams, encodes \in BOOLEAN, s \in Schedules :
          /\ params = <<>> => encodes
          /\ get_task(id, params, encodes, s)
    /\ UNCHANGED <<walkVars, standby>>

CallCreateTask ==
    /\ wpc = "off" /\ pc = "idle"
    /\ \E encodes \in BOOLEAN, s \in Schedules : create_task(encodes, s)
    /\ UNCHANGED <<walkVars, standby>>

CallCancelTask ==
    /\ wpc = "off" /\ pc = "idle"
    /\ \E id \in TaskIds, s \in Schedules : cancel_task(id, s)
    /\ UNCHANGED <<walkVars, standby>>

SendRequest == Send /\ UNCHANGED <<walkVars, standby>>

Transport == (\E r \in Responses : Respond(r)) /\ UNCHANGED <<walkVars, standby>>

WakeUp == Wake /\ UNCHANGED <<walkVars, standby>>

Next ==
    \/ CallServiceInfo
    \/ CallListTasks
    \/ CallGetTask
    \/ CallCreateTask
    \/ CallCancelTask
    \/ SendRequest
    \/ Transport
    \/ WakeUp

Spec == Init /\ [][Next]_vars

\* The call's future is polled until it is ready, every attempt completes
\* (with a response or a failure: the client's connect and read timeouts
\* bound it), and every sleep of the retry loop elapses.
FairSpec ==
    /\ Spec
    /\ WF_vars(SendRequest)
    /\ WF_vars(Transport)
    /\ WF_vars(WakeUp)

(***************************************************************************)
(* The pagination loops of the examples: print_status_table                *)
(* (status-table.rs) and list_all_tasks (task-list-all.rs).  The server    *)
(* holds a sequence of pages, each with its tasks and the token it hands   *)
(* out; a request carrying a token is answered with the page after the     *)
(* first page that handed the token out (the first page again after the    *)
(* last), a request without a token with the first page.                   *)
(***************************************************************************)
Walkers == {"print_status_table", "list_all_tasks"}

Tokens == {"abc", "xyz", ""}

PageContents ==
    { <<FullShaped("a", "RUNNING")>>,
      <<FullShaped("b", "COMPLETE"), FullShaped("c", "RUNNING")>> }

Pages == [tasks : PageContents, next : {None} \cup Tokens]

Servers == SeqsUpTo(Pages, MaxPages) \ {<<>>}

Min(S) == CHOOSE x \in S : \A y \in S : x <= y

\* the index of the page that answers a request carrying token; 0 if the
\* server never handed the token out
PageIndex(srv, token) ==
    IF token = None THEN 1
    ELSE LET bearers == {i \in 1..Len(srv) : srv[i].next = token}
         IN IF bearers = {} THEN 0 ELSE (Min(bearers) % Len(srv)) + 1

\* the server shows of each task what the requested view includes
Render(view, t) == IF view \in {"BASIC", "FULL"} THEN t ELSE MinimalShaped(t.id, t.state)

ServerPage(srv, rq) ==
    LET page == srv[PageIndex(srv, rq.page_token)]
    IN PageBody([i \in 1..Len(page.tasks) |-> Render(rq.view, page.tasks[i])], page.next)

ServerResponses(srv, rq) ==
    {Response(TRUE, 500, FALSE, NoBody)}
    \cup (IF PageIndex(srv, rq.page_token) = 0
          THEN {Response(TRUE, 404, FALSE, NoBody)}
          ELSE {Response(TRUE, 404, FALSE, NoBody),
                Response(TRUE, 200, TRUE, ServerPage(srv, rq))})

\* ExponentialFactorBackoff::from_millis(1000, 2.0).max_interval(10000).take(3),
\* in seconds; task-list-all.rs passes no schedule
WalkerSchedule(w) == IF w = "print_status_table" THEN <<1, 2, 4>> ELSE <<>>

\* the view the loop asks for
WalkerView(w) == IF w = "print_status_table" THEN "Minimal" ELSE "Full"

\* a loop that never passes its token on
WalkerParamsWithoutToken(w, token) ==
    <<[page_size |-> <<>>, page_token |-> None, view |-> WalkerView(w)]>>

\* the ListTasksParams of the loop's call
WalkerParams(w, token) ==
    <<[page_size |-> <<>>, page_token |-> token, view |-> WalkerView(w)]>>

\* the task a TaskResponse holds
Inner(item) == TaskObj(item.id, item.state, item.name, item.executors)

\* TaskResponse::as_minimal: Some(task) for the Minimal variant, else None
as_minimal(item) == IF item.tag = "Minimal" THEN <<Inner(item)>> ELSE <<>>

\* TaskResponse::into_minimal: Some(task) for the Minimal variant, else None
into_minimal(item) == IF item.tag = "Minimal" THEN <<Inner(item)>> ELSE <<>>

\* an accessor that matches the Full variant alone
as_task_full_only(item) == IF item.tag = "Full" THEN <<Inner(item)>> ELSE <<>>

\* TaskResponse::as_task: Some(task) for the Basic and Full variants
as_task(item) == IF item.tag \in {"Basic", "Full"} THEN <<Inner(item)>> ELSE <<>>

\* TaskResponse::into_task: Some(task) for the Basic and Full variants
into_task(item) == IF item.tag \in {"Basic", "Full"} THEN <<Inner(item)>> ELSE <<>>

\* *states.entry(state).or_default() += 1, for every task of the page
RECURSIVE Tally(_, _)
Tally(counts, tasks) ==
    IF tasks = <<>> THEN counts
    ELSE LET k == Head(tasks).state
             bumped == IF k \in DOMAIN counts
                       THEN [counts EXCEPT ![k] = @ + 1]
                       ELSE [x \in DOMAIN counts \cup {k} |->
                                IF x = k THEN 1 ELSE counts[x]]
         IN Tally(bumped, Tail(tasks))

\* loop { list_tasks(...) : the call is made
WalkCall ==
    /\ wpc = "loop" /\ pc = "idle"
    /\ Len(calls) < MaxCalls
    /\ LET params == WalkerParams(walker, last_token)
       IN /\ list_tasks(params, TRUE, WalkerSchedule(walker))
          /\ calls' = Append(calls, params[1].page_token)
    /\ wpc' = "calling"
    /\ UNCHANGED <<walker, server, last_token, served, printed, states, wresult>>
    /\ UNCHANGED standby

\* a loop that breaks on the wrong condition
LoopsOnInverted(token) == token = None

\* a loop that gives up after two pages
LoopsOnWhileFewPages(token) == token # None /\ Len(calls) < 2

\* a loop that takes an empty token for no token
LoopsOnNonEmpty(token) == token # None /\ token # ""

\* if last_token.is_none() { break }: the loop goes on while a token came
LoopsOn(token) == token # None

\* a loop that goes on to the next call after a call has failed
WalkReceiveSkippingFailedPage ==
    /\ wpc = "calling" /\ pc = "done"
    /\ pc' = "idle"
    /\ args' = NoArgs /\ req' = NoRequest /\ schedule' = <<>> /\ retries' = <<>>
    /\ attempts' = 0 /\ log' = <<>> /\ last' = NoResponse /\ result' = NoResult
    /\ notified' = <<>> /\ warnings' = <<>>
    /\ IF result.kind # "Ok"
       THEN /\ wpc' = "loop"
            /\ UNCHANGED <<last_token, printed, states, wresult>>
       ELSE IF walker = "print_status_table"
                 /\ \E i \in 1..Len(result.value.tasks) :
                        into_minimal(result.value.tasks[i]) = <<>>
       THEN /\ wpc' = "done"
            /\ wresult' = WResult("panic")
            /\ UNCHANGED <<last_token, printed, states>>
       ELSE /\ IF walker = "print_status_table"
               THEN /\ states' = Tally(states, result.value.tasks)
                    /\ UNCHANGED printed
               ELSE /\ printed' = Append(printed, result.value)
                    /\ UNCHANGED states
            /\ last_token' = result.value.next_page_token
            /\ IF LoopsOn(result.value.next_page_token)
               THEN wpc' = "loop" /\ UNCHANGED wresult
               ELSE wpc' = "done" /\ wresult' = WResult("Ok")
    /\ UNCHANGED <<walker, server, calls, served>>
    /\ UNCHANGED standby

\* ... .await? ; the page is consumed; last_token = response.next_page_token;
\* if last_token.is_none() { break } }
WalkReceive ==
    /\ wpc = "calling" /\ pc = "done"
    /\ pc' = "idle"
    /\ args' = NoArgs /\ req' = NoRequest /\ schedule' = <<>> /\ retries' = <<>>
    /\ attempts' = 0 /\ log' = <<>> /\ last' = NoResponse /\ result' = NoResult
    /\ notified' = <<>> /\ warnings' = <<>>
    /\ IF result.kind # "Ok"
       THEN /\ wpc' = "done"
            /\ wresult' = WResult("Err")
            /\ UNCHANGED <<last_token, printed, states>>
       ELSE IF walker = "print_status_table"
                 /\ \E i \in 1..Len(result.value.tasks) :
                        into_minimal(result.value.tasks[i]) = <<>>
       THEN /\ wpc' = "done"
            /\ wresult' = WResult("panic")
            /\ UNCHANGED <<last_token, printed, states>>
       ELSE /\ IF walker = "print_status_table"
               THEN /\ states' = Tally(states, result.value.tasks)
                    /\ UNCHANGED printed
               ELSE /\ printed' = Append(printed, result.value)
                    /\ UNCHANGED states
            /\ last_token' = result.value.next_page_token
            /\ IF LoopsOn(result.value.next_page_token)
               THEN wpc' = "loop" /\ UNCHANGED wresult
               ELSE wpc' = "done" /\ wresult' = WResult("Ok")
    /\ UNCHANGED <<walker, server, calls, served>>
    /\ UNCHANGED standby

WalkInit ==
    /\ NoCall
    /\ Standby
    /\ wpc = "loop"
    /\ walker \in Walkers
    /\ server \in Servers
    /\ last_token = None
    /\ calls = <<>>
    /\ served = <<>>
    /\ printed = <<>>
    /\ states = NoCounts
    /\ wresult = WResult(None)

ServerTransport ==
    /\ wpc = "calling"
    /\ \E r \in ServerResponses(server, req) :
          /\ Respond(r)
          /\ served' = IF r.recv THEN Append(served, r.body.next) ELSE served
    /\ UNCHANGED <<wpc, walker, server, last_token, calls, printed, states, wresult>>
    /\ UNCHANGED standby

WalkSend == wpc = "calling" /\ Send /\ UNCHANGED <<walkVars, standby>>

WalkWake == wpc = "calling" /\ Wake /\ UNCHANGED <<walkVars, standby>>

WalkNext ==
    \/ WalkCall
    \/ WalkSend
    \/ ServerTransport
    \/ WalkWake
    \/ WalkReceive

WalkSpec == WalkInit /\ [][WalkNext]_vars

(***************************************************************************)
(* The accessors of TaskResponse, called on any value of the type           *)
(* (specification AccessSpec).  as_minimal and as_task borrow the value;    *)
(* into_minimal and into_task consume it.                                   *)
(***************************************************************************)
StateNames == {"QUEUED", "RUNNING", "COMPLETE"}

MinimalTasks == {MinimalShaped(id, st) : id \in {"a", "b"}, st \in {None} \cup StateNames}

Tasks ==
    {TaskObj(id, st, name, "executors") :
        id \in {None, "a", "b"}, st \in {None} \cup StateNames, name \in {None, "name"}}

TaskResponses ==
    {Item("Minimal", t) : t \in MinimalTasks}
    \cup {Item(tag, t) : tag \in {"Basic", "Full"}, t \in Tasks}

AccessInit ==
    /\ NoCall
    /\ NoWalk
    /\ NoJoin
    /\ NoBuild
    /\ NoCodec
    /\ NoPair
    /\ response \in {<<v>> : v \in TaskResponses}
    /\ accessed = NotAccessed

AsMinimal ==
    /\ response # <<>>
    /\ accessed' = Access("as_minimal", response[1], as_minimal(response[1]))
    /\ UNCHANGED <<response, callVars, walkVars, buildVars, codecVars, concurrent, joined>>

IntoMinimal ==
    /\ response # <<>>
    /\ accessed' = Access("into_minimal", response[1], into_minimal(response[1]))
    /\ response' = <<>>
    /\ UNCHANGED <<callVars, walkVars, buildVars, codecVars, concurrent, joined>>

AsTask ==
    /\ response # <<>>
    /\ accessed' = Access("as_task", response[1], as_task(response[1]))
    /\ UNCHANGED <<response, callVars, walkVars, buildVars, codecVars, concurrent, joined>>

IntoTask ==
    /\ response # <<>>
    /\ accessed' = Access("into_task", response[1], into_task(response[1]))
    /\ response' = <<>>
    /\ UNCHANGED <<callVars, walkVars, buildVars, codecVars, concurrent, joined>>

AccessNext ==
    \/ AsMinimal
    \/ IntoMinimal
    \/ AsTask
    \/ IntoTask

AccessSpec == AccessInit /\ [][AccessNext]_vars

(***************************************************************************)
(* The client Builder (src/src/v1/client/builder.rs), specification        *)
(* BuilderSpec.  A string is a sequence of pieces; a Url is what           *)
(* url::Url::parse keeps of it: the part before the path (scheme and       *)
(* authority), the path piece by piece, and the query.                     *)
(***************************************************************************)
Origins == {"http://localhost:4000", "mailto:"}

\* http is a special scheme: its URLs never have an empty path
Special(origin) == origin = "http://localhost:4000"

PathStrings ==
    { <<>>, <<"/">>, <<"/", "v1">>, <<"/", "v1", "/">>, <<"/", "v1", "/", "/">>,
      <<"foo@bar.com">> }

QueryStrings == {<<>>, <<"?x=1">>}

UrlStrings ==
    {<<o>> \o p \o q : o \in Origins, p \in PathStrings, q \in QueryStrings}
    \cup {<<>>, <<"/", "v1">>}

Url(origin, path, query) == [origin |-> origin, path |-> path, query |-> query]

\* str::parse::<Url>: <<url>>, or <<>> for a ParseError (no scheme, or a
\* host and port that do not parse)
Parse(str) ==
    IF str = <<>> \/ str[1] \notin Origins THEN <<>>
    ELSE LET rest == Tail(str)
             hasQuery == rest # <<>> /\ rest[Len(rest)] = "?x=1"
             path == IF hasQuery THEN SubSeq(rest, 1, Len(rest) - 1) ELSE rest
         IN IF Special(str[1]) /\ path # <<>> /\ path[1] # "/" THEN <<>>
            ELSE <<Url(str[1],
                       IF Special(str[1]) /\ path = <<>> THEN <<"/">> ELSE path,
                       IF hasQuery THEN "?x=1" ELSE None)>>

\* Url::to_string (Display)
to_string(u) == <<u.origin>> \o u.path \o (IF u.query = None THEN <<>> ELSE <<u.query>>)

\* the URLs a caller can hold
Urls == {Parse(str)[1] : str \in {t \in UrlStrings : Parse(t) # <<>>}}

\* str::ends_with("/")
ends_with_slash(path) == path # <<>> /\ path[Len(path)] = "/"

\* Url::set_path
set_path(u, path) == [u EXCEPT !.path = path]

\* a Builder::url that stores the URL as given
url_as_given(b, u) == [b EXCEPT !.url = <<u>>]

\* Builder::url
url(b, u) ==
    [b EXCEPT !.url = <<IF ~ends_with_slash(u.path)
                         THEN set_path(u, Append(u.path, "/"))
                         ELSE u>>]

HeaderNames == {"Authorization"}
HeaderValues == {"Basic abc", "not\nallowed"}

\* HeaderValue::from_str is Ok
HeaderValueOk(value) == value # "not\nallowed"

\* HeaderMap::insert
insert_header(b, key, value) ==
    [b EXCEPT !.headers = {h \in @ : h[1] # key} \cup {<<key, value>>}]

Timeouts == {1, 2}

connect_timeout(b, timeout) == [b EXCEPT !.connect_timeout = <<timeout>>]

read_timeout(b, timeout) == [b EXCEPT !.read_timeout = <<timeout>>]

\* Client { url, client }, the reqwest client shown by its configuration
BuiltClient(u, connect, read, headers) ==
    [url |-> u, connect_timeout |-> connect, read_timeout |-> read, headers |-> headers]

\* a try_build that requires the timeouts too
try_build_requiring_timeouts(b, ok) ==
    IF b.url = <<>> THEN BuildResult("Missing", "url", <<>>)
    ELSE IF b.connect_timeout = <<>> THEN BuildResult("Missing", "connect_timeout", <<>>)
    ELSE IF b.read_timeout = <<>> THEN BuildResult("Missing", "read_timeout", <<>>)
    ELSE IF ~ok THEN BuildResult("Reqwest", None, <<>>)
    ELSE BuildResult("Ok", None,
                     <<BuiltClient(b.url[1], b.connect_timeout[1], b.read_timeout[1],
                                   b.headers)>>)

\* Builder::try_build; ok is whether reqwest's ClientBuilder::build succeeds
try_build(b, ok) ==
    IF b.url = <<>> THEN BuildResult("Missing", "url", <<>>)
    ELSE IF ~ok THEN BuildResult("Reqwest", None, <<>>)
    ELSE BuildResult("Ok", None,
                     <<BuiltClient(b.url[1],
                                   UnwrapOrU16(b.connect_timeout, DEFAULT_CONNECT_TIMEOUT),
                                   UnwrapOrU16(b.read_timeout, DEFAULT_READ_TIMEOUT),
                                   b.headers)>>)

BuilderInit ==
    /\ NoCall
    /\ NoWalk
    /\ NoJoin
    /\ NoCodec
    /\ NoAccess
    /\ NoPair
    /\ bpc = "building"
    /\ builder = DefaultBuilder
    /\ built = NotBuilt
    /\ given = <<>>

\* what the builder's steps leave alone
besideBuild == <<callVars, walkVars, codecVars, accessVars, concurrent, joined>>

\* .url(u), with a URL the caller parsed or took from this builder
SetUrl ==
    /\ bpc = "building"
    /\ \E u \in Urls \cup {builder.url[i] : i \in 1..Len(builder.url)} :
          /\ builder' = url(builder, u)
          /\ given' = <<u>>
    /\ UNCHANGED <<bpc, built, besideBuild>>

\* .url_from_string(str)
SetUrlFromString ==
    /\ bpc = "building"
    /\ \E str \in UrlStrings :
          IF Parse(str) = <<>>
          THEN /\ bpc' = "failed"
               /\ built' = BuildResult("Url", None, <<>>)
               /\ UNCHANGED <<builder, given>>
          ELSE /\ builder' = url(builder, Parse(str)[1])
               /\ given' = Parse(str)
               /\ UNCHANGED <<bpc, built>>
    /\ UNCHANGED besideBuild

\* .insert_header(key, value)
InsertHeader ==
    /\ bpc = "building"
    /\ \E key \in HeaderNames, value \in HeaderValues :
          IF HeaderValueOk(value)
          THEN builder' = insert_header(builder, key, value) /\ UNCHANGED bpc
          ELSE bpc' = "panicked" /\ UNCHANGED builder
    /\ UNCHANGED <<built, given, besideBuild>>

\* .connect_timeout(timeout)
SetConnectTimeout ==
    /\ bpc = "building"
    /\ \E timeout \in Timeouts : builder' = connect_timeout(builder, timeout)
    /\ UNCHANGED <<bpc, built, given, besideBuild>>

\* .read_timeout(timeout)
SetReadTimeout ==
    /\ bpc = "building"
    /\ \E timeout \in Timeouts : builder' = read_timeout(builder, timeout)
    /\ UNCHANGED <<bpc, built, given, besideBuild>>

\* .try_build()
TryBuild ==
    /\ bpc = "building"
    /\ \E ok \in BOOLEAN : built' = try_build(builder, ok)
    /\ bpc' = "built"
    /\ UNCHANGED <<builder, given, besideBuild>>

BuilderNext ==
    \/ SetUrl
    \/ SetUrlFromString
    \/ InsertHeader
    \/ SetConnectTimeout
    \/ SetReadTimeout
    \/ TryBuild

BuilderSpec == BuilderInit /\ [][BuilderNext]_vars

(***************************************************************************)
(* The URL a call requests (specification JoinSpec).  Each operation makes *)
(* an endpoint string, and get() and post() join it to the client's base   *)
(* URL and unwrap the outcome.  The strings are sequences of pieces, as    *)
(* the URLs of the builder are; a path's segments are the runs of pieces   *)
(* between its "/".                                                        *)
(***************************************************************************)
\* the ids a caller gives get_task and cancel_task
PathIds ==
    { <<"a">>, <<"..">>, <<"..", "/", "..", "/", "admin">>, <<"a", "?view=FULL">> }

\* the ListTasksParams that hold at most a view
ViewListParams ==
    {params \in ListParams :
        params # <<>> => params[1].page_size = <<>> /\ params[1].page_token = None}

\* "?{params}" with params = serde_url_params::to_string(params): the view
\* under its serde name, nothing for an absent view; <<>> for no parameters
url_params(params) ==
    IF params = <<>> THEN <<>>
    ELSE IF params[1].view = None THEN <<"?">>
    ELSE <<"?view=" \o ViewQueryName(params[1].view)>>

\* the strings the parameters encode to
ParamStrings == {url_params(params) : params \in ViewListParams \cup GetParams}

\* the endpoint strings: "service-info", "tasks", "tasks?{params}",
\* "tasks/{id}", "tasks/{id}?{params}", "tasks/{id}:cancel"
Endpoint(op, id, params) ==
    CASE op = "service_info" -> <<"service-info">>
      [] op = "list_tasks" -> <<"tasks">> \o params
      [] op = "create_task" -> <<"tasks">>
      [] op = "get_task" -> <<"tasks", "/">> \o id \o params
      [] op = "cancel_task" -> <<"tasks", "/">> \o id \o <<":cancel">>

\* Url::cannot_be_a_base: no slash follows the URL's scheme
cannot_be_a_base(u) == u.origin = "mailto:"

RECURSIVE Segments(_)
Segments(pieces) ==
    IF pieces = <<>> THEN << <<>> >>
    ELSE LET rest == Segments(Tail(pieces))
         IN IF Head(pieces) = "/" THEN << <<>> >> \o rest
            ELSE << <<Head(pieces)>> \o Head(rest) >> \o Tail(rest)

\* the segments of a reference taken one by one onto the directory dir:
\* ".." drops the directory's last segment (none at the root), "." adds
\* nothing, and either leaves a trailing slash when it comes last
RECURSIVE Resolve(_, _)
Resolve(dir, segs) ==
    IF segs = <<>> THEN dir
    ELSE LET seg == Head(segs)
             isLast == Len(segs) = 1
             popped == IF dir = <<>> THEN dir ELSE SubSeq(dir, 1, Len(dir) - 1)
         IN IF seg = <<"..">>
            THEN Resolve(IF isLast THEN Append(popped, <<>>) ELSE popped, Tail(segs))
            ELSE IF seg = <<".">>
            THEN Resolve(IF isLast THEN Append(dir, <<>>) ELSE dir, Tail(segs))
            ELSE Resolve(Append(dir, seg), Tail(segs))

RECURSIVE Slashed(_)
Slashed(segs) ==
    IF segs = <<>> THEN <<>> ELSE <<"/">> \o Head(segs) \o Slashed(Tail(segs))

\* the string the pieces make
RECURSIVE Cat(_)
Cat(pieces) == IF Len(pieces) = 1 THEN pieces[1] ELSE pieces[1] \o Cat(Tail(pieces))

\* Url::join of a reference without a scheme: <<url>>, or <<>> for the
\* ParseError a base that cannot be a base gives.  The path is resolved
\* against the base's path up to its last "/", and the query is the
\* reference's, from its first "?" on.
join(base, reference) ==
    IF cannot_be_a_base(base) THEN <<>>
    ELSE LET n == Len(reference)
             marks == {i \in 1..n : <<reference[i]>> \in ParamStrings}
             hasQuery == marks # {}
             path == IF hasQuery THEN SubSeq(reference, 1, Min(marks) - 1) ELSE reference
             segs == Segments(Tail(base.path))
             dir == SubSeq(segs, 1, Len(segs) - 1)
         IN <<Url(base.origin,
                  IF path = <<>> THEN base.path ELSE Slashed(Resolve(dir, Segments(path))),
                  IF hasQuery THEN Cat(SubSeq(reference, Min(marks), n)) ELSE None)>>

\* self.url.join(endpoint).unwrap()
join_unwrap(base, endpoint) ==
    IF join(base, endpoint) = <<>> THEN JoinResult("panic", <<>>)
    ELSE JoinResult("Ok", join(base, endpoint))

\* a client built from any URL a caller can hold
JoinInit ==
    /\ NoCall
    /\ NoWalk
    /\ NoCodec
    /\ NoAccess
    /\ NoPair
    /\ NoJoin
    /\ bpc = "built"
    /\ \E u \in Urls :
          /\ given = <<u>>
          /\ builder = url(DefaultBuilder, u)
    /\ built = try_build(builder, TRUE)

\* the operation op joins its endpoint to the client's URL
JoinEndpoint(op, id, params, tag) ==
    /\ bpc = "built" /\ built.kind = "Ok"
    /\ joined.out.kind # "panic"
    /\ joined' = Joined(<<built.client[1].url>>, op, id, Endpoint(op, id, params), tag,
                        join_unwrap(built.client[1].url, Endpoint(op, id, params)))
    /\ UNCHANGED <<callVars, walkVars, buildVars, codecVars, accessVars, concurrent>>

JoinServiceInfo == JoinEndpoint("service_info", <<>>, <<>>, None)

JoinListTasks ==
    \E params \in ViewListParams :
        JoinEndpoint("list_tasks", <<>>, url_params(params), ListView(params))

JoinGetTask ==
    \E id \in PathIds, params \in GetParams :
        JoinEndpoint("get_task", id, url_params(params), GetView(params))

JoinCreateTask == JoinEndpoint("create_task", <<>>, <<>>, None)

JoinCancelTask == \E id \in PathIds : JoinEndpoint("cancel_task", id, <<>>, None)

JoinNext ==
    \/ JoinServiceInfo
    \/ JoinListTasks
    \/ JoinGetTask
    \/ JoinCreateTask
    \/ JoinCancelTask

JoinSpec == JoinInit /\ [][JoinNext]_vars

(***************************************************************************)
(* ServiceInfo and its conversion to JSON and back                         *)
(* (src/src/v1/types/responses/service_info.rs), specification CodecSpec.  *)
(* A JSON value is null, a string, an array or an object; an object is a   *)
(* record of its keys.  A string that renders a URL is the sequence of the *)
(* URL's pieces; one that renders a time is the text's seconds, the number *)
(* of its fraction digits and the fraction.                                *)
(***************************************************************************)
JNull == [t |-> "null", v |-> <<>>]
JString(x) == [t |-> "string", v |-> x]
JArray(elems) == [t |-> "array", v |-> elems]
JObject(fields) == [t |-> "object", v |-> fields]

\* DateTime<Utc>: seconds and nanoseconds
DateTime(secs, nanos) == [secs |-> secs, nanos |-> nanos]

Rfc3339(secs, digits, frac) == [secs |-> secs, digits |-> digits, frac |-> frac]

\* chrono's Serialize for DateTime: RFC 3339 with as many fraction digits
\* (none, 3, 6 or 9) as the nanoseconds need
to_rfc3339(d) ==
    IF d.nanos = 0 THEN Rfc3339(d.secs, 0, 0)
    ELSE IF d.nanos % 1000000 = 0 THEN Rfc3339(d.secs, 3, d.nanos \div 1000000)
    ELSE IF d.nanos % 1000 = 0 THEN Rfc3339(d.secs, 6, d.nanos \div 1000)
    ELSE Rfc3339(d.secs, 9, d.nanos)

\* chrono's Deserialize for DateTime: the fraction scaled to nanoseconds
parse_from_rfc3339(text) ==
    DateTime(text.secs,
             CASE text.digits = 0 -> 0
               [] text.digits = 3 -> text.frac * 1000000
               [] text.digits = 6 -> text.frac * 1000
               [] text.digits = 9 -> text.frac)

\* Serialize for the types of the fields
Ser(type, x) ==
    CASE type = "String" -> JString(x)
      [] type = "Url" -> JString(to_string(x))
      [] type = "DateTime" -> JString(to_rfc3339(x))
      [] type = "Vec<String>" -> JArray([k \in 1..Len(x) |-> JString(x[k])])
      \* serde(rename = "tes")
      [] type = "Artifact" /\ x = "TaskExecutionService" -> JString("tes")

\* Serialize for Option: null for None
SerOption(type, opt) == IF opt = <<>> THEN JNull ELSE Ser(type, opt[1])

SerServiceType(ty) ==
    JObject([group |-> Ser("String", ty.group),
             artifact |-> Ser("Artifact", ty.artifact),
             version |-> Ser("String", ty.version)])

SerOrganization(o) ==
    JObject([name |-> Ser("String", o.name), url |-> Ser("Url", o.url)])

\* a Serialize without serde(rename_all = "camelCase")
SerServiceInfoSnakeCase(i) ==
    JObject([id |-> Ser("String", i.id),
             name |-> Ser("String", i.name),
             type |-> SerServiceType(i.ty),
             description |-> SerOption("String", i.description),
             organization |-> SerOrganization(i.organization),
             contact_url |-> SerOption("String", i.contact_url),
             documentation_url |-> SerOption("Url", i.documentation_url),
             created_at |-> SerOption("DateTime", i.created_at),
             updated_at |-> SerOption("DateTime", i.updated_at),
             environment |-> SerOption("String", i.environment),
             version |-> Ser("String", i.version),
             storage |-> SerOption("Vec<String>", i.storage)])

\* serde(rename_all = "camelCase"), serde(rename = "type") on ty
SerServiceInfo(i) ==
    JObject([id |-> Ser("String", i.id),
             name |-> Ser("String", i.name),
             type |-> SerServiceType(i.ty),
             description |-> SerOption("String", i.description),
             organization |-> SerOrganization(i.organization),
             contactUrl |-> SerOption("String", i.contact_url),
             documentationUrl |-> SerOption("Url", i.documentation_url),
             createdAt |-> SerOption("DateTime", i.created_at),
             updatedAt |-> SerOption("DateTime", i.updated_at),
             environment |-> SerOption("String", i.environment),
             version |-> Ser("String", i.version),
             storage |-> SerOption("Vec<String>", i.storage)])

\* Deserialize for the types of the fields: <<value>>, or <<>> for an error
De(type, j) ==
    CASE type = "String" -> IF j.t = "string" THEN <<j.v>> ELSE <<>>
      [] type = "Url" -> IF j.t = "string" THEN Parse(j.v) ELSE <<>>
      [] type = "DateTime" -> IF j.t = "string" THEN <<parse_from_rfc3339(j.v)>> ELSE <<>>
      [] type = "Vec<String>" ->
            IF j.t = "array" /\ \A k \in 1..Len(j.v) : j.v[k].t = "string"
            THEN <<[k \in 1..Len(j.v) |-> j.v[k].v]>>
            ELSE <<>>
      [] type = "Artifact" ->
            IF j.t = "string" /\ j.v = "tes" THEN <<"TaskExecutionService">> ELSE <<>>

\* a field that must be there
Required(type, obj, key) ==
    IF key \in DOMAIN obj.v THEN De(type, obj.v[key]) ELSE <<>>

\* an Option field: None when the key is missing or null
Optional(type, obj, key) ==
    IF key \notin DOMAIN obj.v \/ obj.v[key].t = "null" THEN << <<>> >>
    ELSE IF De(type, obj.v[key]) = <<>> THEN <<>>
    ELSE <<De(type, obj.v[key])>>

DeServiceType(j) ==
    IF j.t # "object" THEN <<>>
    ELSE LET group == Required("String", j, "group")
             artifact == Required("Artifact", j, "artifact")
             version == Required("String", j, "version")
         IN IF group = <<>> \/ artifact = <<>> \/ version = <<>> THEN <<>>
            ELSE <<[group |-> group[1], artifact |-> artifact[1], version |-> version[1]]>>

DeOrganization(j) ==
    IF j.t # "object" THEN <<>>
    ELSE LET name == Required("String", j, "name")
             u == Required("Url", j, "url")
         IN IF name = <<>> \/ u = <<>> THEN <<>>
            ELSE <<[name |-> name[1], url |-> u[1]]>>

DeServiceInfo(j) ==
    IF j.t # "object" THEN <<>>
    ELSE LET id == Required("String", j, "id")
             name == Required("String", j, "name")
             ty == IF "type" \in DOMAIN j.v THEN DeServiceType(j.v.type) ELSE <<>>
             description == Optional("String", j, "description")
             organization == IF "organization" \in DOMAIN j.v
                             THEN DeOrganization(j.v.organization) ELSE <<>>
             contact == Optional("String", j, "contactUrl")
             documentation == Optional("Url", j, "documentationUrl")
             created == Optional("DateTime", j, "createdAt")
             updated == Optional("DateTime", j, "updatedAt")
             environment == Optional("String", j, "environment")
             version == Required("String", j, "version")
             storage == Optional("Vec<String>", j, "storage")
         IN IF \/ id = <<>> \/ name = <<>> \/ ty = <<>> \/ description = <<>>
               \/ organization = <<>> \/ contact = <<>> \/ documentation = <<>>
               \/ created = <<>> \/ updated = <<>> \/ environment = <<>>
               \/ version = <<>> \/ storage = <<>>
            THEN <<>>
            ELSE <<[id |-> id[1], name |-> name[1], ty |-> ty[1],
                    description |-> description[1],
                    organization |-> organization[1],
                    contact_url |-> contact[1],
                    documentation_url |-> documentation[1],
                    created_at |-> created[1], updated_at |-> updated[1],
                    environment |-> environment[1], version |-> version[1],
                    storage |-> storage[1]]>>

\* serde_json::to_string(&info)
to_json(i) == SerServiceInfo(i)

\* serde_json::from_str::<ServiceInfo>(&serialized)
from_json(j) ==
    IF DeServiceInfo(j) = <<>> THEN Converted("Err", <<>>)
    ELSE Converted("Ok", DeServiceInfo(j))

\* the times, among them the test's 2024-09-07T20:27:35.345673Z
DateTimes ==
    {DateTime(1725740855, n) : n \in {0, 345000000, 345673000, 345673001}}

\* ServiceInfo values with every field populated
ServiceInfos ==
    [id : {"org.ga4gh.myservice"},
     name : {"My Server"},
     ty : {[group |-> "org.ga4gh", artifact |-> "TaskExecutionService", version |-> "1.0.0"]},
     description : {<<"A description">>, <<"">>},
     organization : {[name |-> "My Organization", url |-> u] :
                        u \in {Parse(<<"http://localhost:4000">>)[1],
                               Parse(<<"http://localhost:4000", "/", "v1">>)[1]}},
     contact_url : {<<"mailto:foo@bar.com">>},
     documentation_url : {<<Parse(<<"http://localhost:4000", "/", "v1", "/">>)[1]>>,
                          <<Parse(<<"mailto:", "foo@bar.com", "?x=1">>)[1]>>},
     created_at : {<<d>> : d \in DateTimes},
     updated_at : {<<d>> : d \in DateTimes},
     environment : {<<"test">>},
     version : {"1.5.0"},
     storage : {<< <<>> >>,
                << <<"file:///path/to/local/funnel-storage">> >>,
                << <<"file:///path/to/local/funnel-storage",
                     "s3://ohsu-compbio-funnel/storage">> >>}]

CodecInit ==
    /\ NoCall
    /\ NoWalk
    /\ NoJoin
    /\ NoBuild
    /\ NoAccess
    /\ NoPair
    /\ info \in {<<i>> : i \in ServiceInfos}
    /\ serialized = <<>>
    /\ deserialized = NotConverted

\* let serialized = serde_json::to_string(&info).unwrap()
Serialize ==
    /\ info # <<>> /\ serialized = <<>>
    /\ serialized' = <<to_json(info[1])>>
    /\ UNCHANGED <<info, deserialized, callVars, walkVars, buildVars, accessVars, concurrent, joined>>

\* let deserialized: ServiceInfo = serde_json::from_str(&serialized)
Deserialize ==
    /\ serialized # <<>> /\ deserialized = NotConverted
    /\ deserialized' = from_json(serialized[1])
    /\ UNCHANGED <<info, serialized, callVars, walkVars, buildVars, accessVars, concurrent, joined>>

CodecNext ==
    \/ Serialize
    \/ Deserialize

CodecSpec == CodecInit /\ [][CodecNext]_vars

(***************************************************************************)
(* Two calls running concurrently on one client (specification PairSpec).  *)
(* Client holds the base URL and the reqwest client and nothing else; each *)
(* call of get()/post() is a future of its own that owns the retries it    *)
(* was given, and the futures' steps interleave.                           *)
(***************************************************************************)
CallIds == {"first", "second"}

PairWaits == {1, 2}

PairSchedules == SeqsUpTo(PairWaits, MaxRetries)

\* the requests of service_info (a GET) and create_task (a POST)
PairRequests ==
    { Request("service_info", "GET", <<"service-info">>, None, None, <<>>,
              None, "ServiceInfo", None),
      Request("create_task", "POST", <<"tasks">>, None, None, <<>>,
              "task", "CreatedTask", None) }

\* no connection, a 404, and a 200 whose body decodes as both
PairResponses ==
    { ConnFail,
      Response(TRUE, 404, FALSE, NoBody),
      Response(TRUE, 200, TRUE, InfoBody) }

\* the state of one call's future
Call(p, rq, s, rest, n, l, res) ==
    [pc |-> p, req |-> rq, schedule |-> s, retries |-> rest, attempts |-> n,
     log |-> l, result |-> res]

NotCalled == Call("idle", NoRequest, <<>>, <<>>, 0, <<>>, NoResult)

PairInit ==
    /\ NoCall
    /\ NoWalk
    /\ NoJoin
    /\ NoBuild
    /\ NoCodec
    /\ NoAccess
    /\ concurrent = [c \in CallIds |-> NotCalled]

\* what the concurrent calls leave alone
besidePair == <<callVars, walkVars, buildVars, codecVars, accessVars, joined>>

\* get()/post() is called with its own retries
PairCall(c) ==
    /\ concurrent[c].pc = "idle"
    /\ \E rq \in PairRequests, s \in PairSchedules :
          concurrent' = [concurrent EXCEPT ![c] = Call("ready", rq, s, s, 0, <<>>, NoResult)]
    /\ UNCHANGED besidePair

\* the closure of call c sends the request
PairSend(c) ==
    /\ concurrent[c].pc = "ready"
    /\ concurrent' = [concurrent EXCEPT ![c].pc = "inflight", ![c].attempts = @ + 1]
    /\ UNCHANGED besidePair

\* a Retry whose waits come from one iterator held by the client
TakeWaitFromClient(cs, c) ==
    [d \in DOMAIN cs |->
        IF d = c THEN [cs[d] EXCEPT !.pc = "sleeping", !.retries = Tail(@)]
        ELSE [cs[d] EXCEPT !.retries = IF @ = <<>> THEN @ ELSE Tail(@)]]

\* Retry takes the next wait of the call's own iterator and sleeps
TakeWait(cs, c) == [cs EXCEPT ![c].pc = "sleeping", ![c].retries = Tail(@)]

\* the answer to the attempt of call c arrives
PairRespond(c, r) ==
    /\ concurrent[c].pc = "inflight"
    /\ LET k == concurrent[c]
           outcome == Attempt(k.req, r)
           logged == [concurrent EXCEPT ![c].log = Append(@, Kind(k.req.target, r))]
       IN concurrent' =
              IF RetryDecision(outcome, k.retries) = "sleep"
              THEN TakeWait(logged, c)
              ELSE [logged EXCEPT ![c].pc = "done",
                                  ![c].result = Return(k.req, r, outcome, k.attempts)]
    /\ UNCHANGED besidePair

\* the wait of call c has elapsed
PairWake(c) ==
    /\ concurrent[c].pc = "sleeping"
    /\ concurrent' = [concurrent EXCEPT ![c].pc = "ready"]
    /\ UNCHANGED besidePair

PairCalls == \E c \in CallIds : PairCall(c)

PairSends == \E c \in CallIds : PairSend(c)

PairTransport == \E c \in CallIds, r \in PairResponses : PairRespond(c, r)

PairWakes == \E c \in CallIds : PairWake(c)

PairNext ==
    \/ PairCalls
    \/ PairSends
    \/ PairTransport
    \/ PairWakes

PairSpec == PairInit /\ [][PairNext]_vars

(***************************************************************************)
(* Properties of a single call (specification Spec).                       *)
(***************************************************************************)
TransientKinds == {"conn_fail", "server_error"}

\* the first n responses were connection failures or 5xx responses
FailedTransiently(n) ==
    /\ n <= Len(log)
    /\ \A i \in 1..n : log[i] \in TransientKinds

\* the call is still in its retry loop
Running == pc \in {"ready", "inflight", "sleeping"}

\* C1: if the first N attempts of a call fail transiently (no response, or a
\* 5xx) with N no more than the schedule's length, the call goes on to
\* attempt N+1; and if that attempt succeeds it is the last one (exactly N+1
\* attempts are made) and the call returns the value decoded from it.
C1_SuccessAfterTransientFailures ==
    \A n \in 0..Len(schedule) :
        FailedTransiently(n) /\ req # NoRequest =>
            /\ Len(log) = n => Running /\ attempts \in {n, n + 1}
            /\ Len(log) > n /\ log[n + 1] = "ok" =>
                  /\ Len(log) = n + 1
                  /\ attempts = n + 1
                  /\ pc = "done"
                  /\ result = Ok(Tagged(req, Decoded(req.target, last.body)), n + 1)

C1_Witness ==
    /\ pc = "done"
    /\ Len(schedule) = 2
    /\ log = <<"server_error", "conn_fail", "ok">>
    /\ result.kind = "Ok"
    /\ req.method = "POST"

\* C2: if the first L+1 attempts of a call with a schedule of length L all
\* fail transiently, exactly L+1 attempts are made: the call does not return
\* before the L+1st failure, returns a transport error (Error::Reqwest) on
\* it, and attempt L+2 is never made.
C2_ExhaustedSchedule ==
    /\ attempts <= Len(schedule) + 1
    /\ FailedTransiently(Len(log)) /\ log # <<>> /\ pc = "done" =>
          Len(log) = Len(schedule) + 1
    /\ FailedTransiently(Len(schedule) + 1) =>
          /\ Len(log) = Len(schedule) + 1
          /\ attempts = Len(schedule) + 1
          /\ pc = "done"
          /\ retries = <<>>
          /\ result.kind = "Reqwest"
          /\ result.attempt = Len(schedule) + 1

C2_Witness ==
    /\ pc = "done"
    /\ Len(schedule) = 2
    /\ log = <<"conn_fail", "server_error", "server_error">>
    /\ result.kind = "Reqwest"

\* C3: a 4xx response ends the call: it is the last attempt, no wait is
\* taken from the schedule after it (the waits left are those not used by
\* the retries before it), and the call returns a permanent transport
\* error.  So a 4xx on attempt k+1 means exactly k+1 attempts.
C3_ClientErrorIsFinal ==
    \A i \in 1..Len(log) :
        log[i] = "client_error" =>
            /\ i = Len(log)
            /\ attempts = i
            /\ pc = "done"
            /\ retries = SubSeq(schedule, i, Len(schedule))
            /\ result = Err("Reqwest", i, "status")

C3_Witness ==
    /\ pc = "done"
    /\ log = <<"server_error", "client_error">>
    /\ last.status = 404
    /\ Len(schedule) = 2
    /\ retries # <<>>

\* C4: list_tasks with a page_size of 2048 or more returns InvalidRequest
\* with no network attempt made and nothing taken from the schedule,
\* whatever the other parameters and the schedule.
C4_PageSizeRejected ==
    /\ pc # "idle"
    /\ args.op = "list_tasks"
    /\ args.lparams # <<>>
    /\ args.lparams[1].page_size # <<>>
    /\ args.lparams[1].page_size[1] >= 2048
    => /\ pc = "done"
       /\ result = Err("InvalidRequest", 0, None)
       /\ attempts = 0
       /\ log = <<>>
       /\ retries = schedule

C4_Witness ==
    /\ pc = "done"
    /\ args.op = "list_tasks"
    /\ args.lparams # <<>>
    /\ args.lparams[1].page_size = <<2048>>
    /\ args.lparams[1].view = "Full"
    /\ Len(schedule) = 2
    /\ result.kind = "InvalidRequest"

\* the view the caller asked for, Minimal when it gave none
RequestedView ==
    IF args.op = "get_task"
    THEN IF args.gparams = <<>> THEN "Minimal" ELSE args.gparams[1].view
    ELSE IF args.lparams = <<>> \/ args.lparams[1].view = None THEN "Minimal"
         ELSE args.lparams[1].view

\* C5: the TaskResponse get_task returns, and every TaskResponse of a page
\* list_tasks returns, is tagged with the view the call asked for (Minimal
\* if none), whatever the payload holds.
C5_TagIsRequestedView ==
    pc = "done" /\ result.kind = "Ok" =>
        /\ args.op = "get_task" => result.value.tag = RequestedView
        /\ args.op = "list_tasks" =>
              \A i \in 1..Len(result.value.tasks) :
                  result.value.tasks[i].tag = RequestedView

C5_Witness ==
    /\ pc = "done"
    /\ result.kind = "Ok"
    /\ args.op = "list_tasks"
    /\ args.lparams = <<>>
    /\ Len(result.value.tasks) = 2
    /\ last.body.tasks[1].executors # None
    /\ result.value.tasks[1].tag = "Minimal"
    /\ result.value.tasks[2].tag = "Minimal"

\* C8 as stated: a call with an empty schedule makes exactly one attempt.
C8_EveryCallAttemptsOnce ==
    pc = "done" /\ schedule = <<>> => attempts = 1

\* C8, amended: a call with an empty schedule that passes the operation's
\* own validation makes exactly one attempt, never sleeps, and returns that
\* attempt's outcome: the value on success, a transport error on a failure
\* or an error status, and on an undecodable body SerdeJSON (GET) or a
\* transport error (POST).
C8_EmptyScheduleOneAttempt ==
    schedule = <<>> /\ req # NoRequest =>
        /\ attempts <= 1
        /\ pc # "sleeping"
        /\ pc = "done" =>
              /\ attempts = 1
              /\ Len(log) = 1
              /\ result.attempt = 1
              /\ log[1] = "ok" => result.kind = "Ok"
              /\ log[1] \in {"conn_fail", "server_error", "client_error", "recv_fail"} =>
                    result.kind = "Reqwest"
              /\ log[1] = "bad_body" =>
                    result.kind = IF req.method = "GET" THEN "SerdeJSON" ELSE "Reqwest"

C8_Witness ==
    /\ pc = "done"
    /\ schedule = <<>>
    /\ args.op = "service_info"
    /\ log = <<"server_error">>
    /\ attempts = 1
    /\ result.kind = "Reqwest"

\* C9: on the GET path, a body that was read in full but does not decode
\* into the expected type ends the call: no further attempt is made, the
\* waits left in the schedule stay unused, and the call returns
\* Error::SerdeJSON.
C9_ReadDecodeFailureNotRetried ==
    req.method = "GET" =>
        \A i \in 1..Len(log) :
            log[i] = "bad_body" =>
                /\ i = Len(log)
                /\ attempts = i
                /\ pc = "done"
                /\ retries = SubSeq(schedule, i, Len(schedule))
                /\ result = Err("SerdeJSON", i, None)

C9_Witness ==
    /\ pc = "done"
    /\ args.op = "get_task"
    /\ log = <<"bad_body">>
    /\ is_success(last.status)
    /\ last.recv
    /\ Len(retries) = 2
    /\ result.kind = "SerdeJSON"

\* C10: on the POST path, a failure to read or to decode the body of a
\* response is transient: while the schedule has a wait left the call takes
\* it and sends the POST again, and only the failure of attempt L+1 is
\* returned, as a transport error.
C10_WriteBodyFailureTransient ==
    req.method = "POST" =>
        \A i \in 1..Len(log) :
            log[i] \in {"recv_fail", "bad_body"} =>
                IF i <= Len(schedule)
                THEN \/ Len(log) > i
                     \/ /\ Running
                        /\ attempts \in {i, i + 1}
                        /\ retries = SubSeq(schedule, i + 1, Len(schedule))
                ELSE /\ i = Len(log)
                     /\ pc = "done"
                     /\ result = Err("Reqwest", i,
                                     IF log[i] = "recv_fail" THEN "body" ELSE "decode")

C10_Witness ==
    /\ pc = "inflight"
    /\ args.op = "create_task"
    /\ log = <<"bad_body">>
    /\ is_success(last.status)
    /\ last.recv
    /\ attempts = 2

\* C11: on the GET path, a response with a success status whose body bytes
\* fail to arrive is a transient failure: while the schedule has a wait left
\* the call takes it and sends the GET again, and with no wait left the
\* failure is the call's error, a transport error from reading the body.
C11_ReadBodyFailureTransient ==
    req.method = "GET" =>
        \A i \in 1..Len(log) :
            log[i] = "recv_fail" =>
                IF i <= Len(schedule)
                THEN \/ Len(log) > i
                     \/ /\ Running
                        /\ attempts \in {i, i + 1}
                        /\ retries = SubSeq(schedule, i + 1, Len(schedule))
                ELSE /\ i = Len(log)
                     /\ attempts = i
                     /\ pc = "done"
                     /\ result = Err("Reqwest", i, "body")

C11_Witness ==
    /\ pc = "done"
    /\ args.op = "get_task"
    /\ Len(schedule) = 1
    /\ log = <<"recv_fail", "recv_fail">>
    /\ last.status = 200
    /\ attempts = 2
    /\ result = Err("Reqwest", 2, "body")

\* the variants of client::Error
ErrorKinds == {"InvalidRequest", "SerdeJSON", "SerdeParams", "Reqwest"}

\* the origin of the reqwest error an attempt of the given kind ends in
CauseOf(kind) ==
    CASE kind = "conn_fail" -> "request"
      [] kind \in {"server_error", "client_error"} -> "status"
      [] kind = "recv_fail" -> "body"
      [] kind = "bad_body" -> "decode"

\* the schedule ran out: every wait was taken and the attempt after the last
\* wait failed transiently too
Exhausted ==
    /\ pc = "done"
    /\ Len(log) = Len(schedule) + 1
    /\ Attempt(req, last).class = "transient"

\* C12: a call that ends because its schedule ran out returns the error of
\* its final attempt, attempt L+1, and not that of an earlier one; the error
\* is the transport error (Error::Reqwest) the same failure gives a call
\* without retries, and no variant of Error stands for exhaustion.
C12_ExhaustionReturnsLastError ==
    /\ result.kind \in ErrorKinds \cup {"Ok", None}
    /\ Exhausted =>
          /\ retries = <<>>
          /\ result.kind = "Reqwest"
          /\ result.attempt = Len(schedule) + 1
          /\ result.cause = CauseOf(log[Len(log)])
          /\ result.value = NoValue

C12_Witness ==
    /\ Exhausted
    /\ args.op = "list_tasks"
    /\ Len(schedule) = 2
    /\ log = <<"conn_fail", "server_error", "recv_fail">>
    /\ result = Err("Reqwest", 3, "body")

\* C17: notify_retry logs a warning exactly for the invocations with a
\* duration other than zero: the warnings are the durations of the
\* invocations with the zeros left out.  The invocation after the first
\* attempt carries zero and logs nothing; and a call whose first attempt
\* succeeds has invoked the hook not at all and logged nothing.
C17_WarningIffNonZeroDuration ==
    LET NonZero(d) == d # 0
    IN /\ warnings = SelectSeq(notified, NonZero)
       /\ Len(log) <= 1 => warnings = <<>>
       /\ notified # <<>> => notified[1] = 0
       /\ log = <<"ok">> => notified = <<>> /\ warnings = <<>>

C17_Witness ==
    /\ pc = "done"
    /\ args.op = "service_info"
    /\ schedule = <<2, 0>>
    /\ log = <<"conn_fail", "conn_fail", "conn_fail">>
    /\ notified = <<0, 2, 2>>
    /\ warnings = <<2, 2>>

\* the answer to the last attempt arrived in full with a status that is no
\* error, and its body is a JSON object
Answered == last.conn /\ ~error_for_status_is_err(last.status) /\ last.recv
            /\ last.body.json = "object"

\* C16: when the view asked for is Minimal, a payload that holds an id, a
\* state and any further fields decodes without error, and the value
\* returned holds that id and state and nothing else: so for the task of
\* get_task, and so for every task of a page of list_tasks.
C16_MinimalIgnoresExtraFields ==
    pc = "done" /\ Answered /\ RequestedView = "Minimal" =>
        /\ args.op = "get_task" /\ last.body.id # None =>
              /\ result.kind = "Ok"
              /\ result.value = Value("TaskResponse", "Minimal",
                                       TaskObj(last.body.id, last.body.state, None, None),
                                       <<>>, None)
        /\ /\ args.op = "list_tasks"
           /\ last.body.hasTasks
           /\ \A i \in 1..Len(last.body.tasks) : last.body.tasks[i].id # None
           => /\ result.kind = "Ok"
              /\ Len(result.value.tasks) = Len(last.body.tasks)
              /\ \A i \in 1..Len(last.body.tasks) :
                    result.value.tasks[i] =
                        Item("Minimal", TaskObj(last.body.tasks[i].id,
                                                last.body.tasks[i].state, None, None))

C16_Witness ==
    /\ pc = "done"
    /\ args.op = "get_task"
    /\ args.gparams = <<[view |-> "Minimal"]>>
    /\ last.body = TaskBody(FullShaped("a", "COMPLETE"))
    /\ result.kind = "Ok"
    /\ result.value.id = "a"
    /\ result.value.state = "COMPLETE"
    /\ result.value.name = None
    /\ result.value.executors = None

\* C20: under FairSpec (every attempt completes, every wait elapses) a call
\* made with any of the finite schedules returns to its caller: from the
\* moment it is in its retry loop it reaches the end, with a value or with
\* one of the errors of Error.
C20_CallTerminates ==
    Running ~> (pc = "done" /\ result.kind \in ErrorKinds \cup {"Ok"})

C20_Witness ==
    /\ pc = "done"
    /\ args.op = "cancel_task"
    /\ Len(schedule) = 2
    /\ log = <<"recv_fail", "bad_body", "ok">>
    /\ result.kind = "Ok"

\* C21: no response with a status outside 2xx is treated as a success: it is
\* classified transient (if 5xx) or else permanent, its body is not decoded
\* into a result value, and the call does not return Ok because of it.
C21_NonSuccessStatusNeverSuccess ==
    last.conn /\ ~is_success(last.status) =>
        /\ Attempt(req, last).class =
              IF is_server_error(last.status) THEN "transient" ELSE "permanent"
        /\ pc = "done" => result.kind # "Ok" /\ result.value = NoValue

\* C22: a call whose query parameters (list_tasks, get_task) or body
\* (create_task; the body of cancel_task is the unit, which always encodes)
\* the encoder refuses returns the encoding error with no attempt made,
\* nothing taken from the schedule and the retry hook never invoked; and
\* list_tasks looks at the page size first, so that parameters with a page
\* size of 2048 or more that do not encode either give InvalidRequest.
C22_EncodingBeforeRetry ==
    /\ pc # "idle" /\ ~args.encodes =>
          /\ pc = "done"
          /\ req = NoRequest
          /\ attempts = 0
          /\ log = <<>>
          /\ retries = schedule
          /\ notified = <<>>
          /\ result =
                IF /\ args.op = "list_tasks"
                   /\ args.lparams[1].page_size # <<>>
                   /\ args.lparams[1].page_size[1] >= 2048
                THEN Err("InvalidRequest", 0, None)
                ELSE IF args.op \in {"list_tasks", "get_task"}
                THEN Err("SerdeParams", 0, None)
                ELSE Err("SerdeJSON", 0, None)
    /\ result.kind = "SerdeParams" \/ (result.kind = "SerdeJSON" /\ args.op = "create_task"
                                       /\ result.attempt = 0)
          => ~args.encodes

C22_Witness ==
    /\ pc = "done"
    /\ args.op = "get_task"
    /\ ~args.encodes
    /\ Len(schedule) = 2
    /\ retries = schedule
    /\ attempts = 0
    /\ result = Err("SerdeParams", 0, None)

\* parameters that neither pass the page-size check nor encode
C22_OrderWitness ==
    /\ pc = "done"
    /\ args.op = "list_tasks"
    /\ ~args.encodes
    /\ args.lparams[1].page_size = <<2048>>
    /\ result = Err("InvalidRequest", 0, None)

\* a task that does not serialise
C22_BodyWitness ==
    /\ pc = "done"
    /\ args.op = "create_task"
    /\ ~args.encodes
    /\ Len(schedule) = 2
    /\ result = Err("SerdeJSON", 0, None)

\* the number of schedule elements the retry loop has taken
Consumed == Len(schedule) - Len(retries)

\* C25 as stated: in every state of a call the number of attempts started is
\* the number of schedule elements consumed plus one.
C25_AttemptsAreConsumedPlusOne ==
    pc # "idle" => attempts = Consumed + 1

\* C25, amended: the waits are taken from the schedule in order, one per
\* retry, so that the waits left are the schedule less its first elements
\* and retry k comes after the first k elements (the hook is told their sum).
\* While an attempt is in flight, and once the retry loop has returned, the
\* attempts started are the elements consumed plus one; while the call waits
\* for a retry (the element is taken when the attempt fails) and before its
\* first attempt the two are equal, and a call rejected before the retry
\* loop has made no attempt and consumed nothing.  The attempts never exceed
\* the schedule's length plus one, and a success or a permanent failure
\* takes no element: a call that has returned has taken one element for each
\* answer before its last.
C25_WaitsTakenInOrderOnePerRetry ==
    /\ retries = SubSeq(schedule, Consumed + 1, Len(schedule))
    /\ attempts <= Len(schedule) + 1
    /\ \A i \in 1..Len(notified) : notified[i] = Sum(SubSeq(schedule, 1, i - 1))
    /\ pc = "inflight" => attempts = Consumed + 1 /\ Len(log) = Consumed
    /\ pc = "sleeping" => attempts = Consumed /\ Consumed >= 1 /\ Len(log) = Consumed
    /\ pc = "ready" => attempts = Consumed /\ Len(log) = Consumed
    /\ pc = "done" /\ req # NoRequest =>
          /\ attempts = Consumed + 1
          /\ Len(log) = attempts
          /\ Attempt(req, last).class \in {"ok", "permanent"} =>
                retries = SubSeq(schedule, Len(log), Len(schedule))
    /\ pc = "done" /\ req = NoRequest => attempts = 0 /\ Consumed = 0

C25_Witness ==
    /\ pc = "sleeping"
    /\ schedule = <<1, 2>>
    /\ retries = <<>>
    /\ attempts = 2
    /\ notified = <<0, 1>>
    /\ log = <<"server_error", "conn_fail">>

\* a permanent failure after one retry leaves the rest of the schedule
C25_PermanentWitness ==
    /\ pc = "done"
    /\ schedule = <<2, 1>>
    /\ retries = <<1>>
    /\ attempts = 2
    /\ log = <<"conn_fail", "client_error">>

\* C26: a call that fails because a body that arrived in full with a success
\* status does not parse into the expected type returns the body-decoding
\* error (Error::SerdeJSON), not the transport error (Error::Reqwest), on
\* the read operations and on create_task and cancel_task alike.
C26_DecodeFailureIsSerdeJSON ==
    /\ pc = "done"
    /\ result.kind # "Ok"
    /\ last.conn /\ is_success(last.status) /\ last.recv
    /\ ~Decodable(req.target, last.body)
    => result.kind = "SerdeJSON"

\* C27: within one create_task or cancel_task call, once an attempt has been
\* answered with a success status no further attempt is started, so that at
\* most one POST of the call is accepted; and a call that returns an error
\* has not had its write accepted.
C27_AcceptedWriteNotResent ==
    [][/\ req.method = "POST" /\ last.conn /\ is_success(last.status) =>
             attempts' = attempts
       /\ req'.method = "POST" /\ pc' = "done" /\ result'.kind # "Ok" =>
             ~(last'.conn /\ is_success(last'.status))]_vars

\* C27, amended: within one create_task or cancel_task call an answer with
\* a success status ends the call only if its body is read and decoded: it
\* is then the last attempt and the call returns its value.  An answer with
\* a success status whose body fails to be read or decoded is a transient
\* failure: while the
\* schedule has a wait left the same POST is sent again, so that more than
\* one POST of a call can be accepted; and when no wait is left the call
\* returns the transport error of that attempt, although the server
\* accepted the write.
C27_WriteResentAfterBodyFailure ==
    req.method = "POST" =>
        /\ \A i \in 1..Len(log) :
              /\ log[i] = "ok" =>
                    /\ i = Len(log)
                    /\ attempts = i
                    /\ pc = "done"
                    /\ result = Ok(Decoded(req.target, last.body), i)
              /\ log[i] \in {"recv_fail", "bad_body"} /\ i <= Len(schedule) =>
                    \/ Len(log) > i
                    \/ Running /\ attempts \in {i, i + 1}
        /\ pc = "done" /\ result.kind = "Ok" => log[Len(log)] = "ok"
        /\ pc = "done" /\ result.kind # "Ok" /\ last.conn /\ is_success(last.status) =>
              /\ Len(log) = Len(schedule) + 1
              /\ retries = <<>>
              /\ result = Err("Reqwest", Len(log), IF last.recv THEN "decode" ELSE "body")

C27_Witness ==
    /\ pc = "done"
    /\ args.op = "create_task"
    /\ Len(schedule) = 2
    /\ log = <<"bad_body", "recv_fail", "ok">>
    /\ last.status = 200
    /\ attempts = 3
    /\ result.kind = "Ok"

\* a write that was accepted and yet returns an error
C27_ErrorWitness ==
    /\ pc = "done"
    /\ args.op = "cancel_task"
    /\ schedule = <<1>>
    /\ log = <<"bad_body", "bad_body">>
    /\ last.status = 200
    /\ result = Err("Reqwest", 2, "decode")

(***************************************************************************)
(* Properties of the pagination loops (specification WalkSpec).            *)
(***************************************************************************)
\* the server holds k pages of which the first k-1 hand out tokens, each a
\* different one, and the last hands out none
WellFormed(srv) ==
    /\ srv # <<>>
    /\ srv[Len(srv)].next = None
    /\ \A i \in 1..(Len(srv) - 1) :
          /\ srv[i].next # None
          /\ \A j \in 1..(Len(srv) - 1) : j # i => srv[j].next # srv[i].next

RECURSIVE Flatten(_)
Flatten(ss) == IF ss = <<>> THEN <<>> ELSE Head(ss) \o Flatten(Tail(ss))

Ids(tasks) == [i \in 1..Len(tasks) |-> tasks[i].id]

\* the ids of the server's tasks, page after page
ServerIds == Flatten([i \in 1..Len(server) |-> Ids(server[i].tasks)])

\* the ids of the tasks printed, response after response
PrintedIds == Flatten([i \in 1..Len(printed) |-> Ids(printed[i].tasks)])

\* how many of the server's tasks are in state st
ServerCount(st) ==
    Cardinality(UNION {{<<i, j>> : j \in {k \in 1..Len(server[i].tasks) :
                                              server[i].tasks[k].state = st}} :
                       i \in 1..Len(server)})

TaskStates == {"RUNNING", "COMPLETE"}

\* C6 as stated: the walk returns the concatenation of the pages' items.
C6_WalkReturnsConcatenation ==
    WellFormed(server) /\ wpc = "done" /\ wresult.kind = "Ok" =>
        /\ Len(calls) = Len(server)
        /\ wresult.value = ServerIds

\* C6, amended: against a server of k well-formed pages a walk that ends
\* well has made exactly k list_tasks calls and has handled the pages in
\* page order, but returns no sequence (its value is the unit):
\* list_all_tasks has printed the k responses in page order, so that the
\* tasks printed are the concatenation of the pages' tasks, and
\* print_status_table has counted every task of every page once.
C6_WalkHandlesPagesInOrder ==
    WellFormed(server) /\ wpc = "done" /\ wresult.kind = "Ok" =>
        /\ Len(calls) = Len(server)
        /\ wresult.value = <<>>
        /\ walker = "list_all_tasks" =>
              /\ Len(printed) = Len(server)
              /\ \A i \in 1..Len(printed) : Ids(printed[i].tasks) = Ids(server[i].tasks)
              /\ PrintedIds = ServerIds
        /\ walker = "print_status_table" =>
              \A st \in TaskStates :
                  ServerCount(st) = IF st \in DOMAIN states THEN states[st] ELSE 0

C6_Witness ==
    /\ wpc = "done"
    /\ wresult.kind = "Ok"
    /\ walker = "list_all_tasks"
    /\ Len(server) = 3
    /\ calls = <<None, "abc", "xyz">>
    /\ PrintedIds = <<"a", "b", "c", "a">>

\* C7: the first list_tasks call of a walk carries no page token; call n+1
\* is made only once the page of call n has arrived, and carries the token
\* of that page; and the request in flight is always the latest call's, all
\* earlier calls having been answered.
C7_TokensChainInOrder ==
    /\ calls # <<>> => calls[1] = None
    /\ Len(calls) <= Len(served) + 1
    /\ \A n \in 1..(Len(calls) - 1) :
          /\ served[n] # None
          /\ calls[n + 1] = served[n]
    /\ pc = "inflight" =>
          /\ wpc = "calling"
          /\ Len(served) = Len(calls) - 1
          /\ req.page_token = calls[Len(calls)]
    /\ wpc = "loop" => pc = "idle" /\ Len(served) = Len(calls)

C7_Witness ==
    /\ pc = "inflight"
    /\ walker = "print_status_table"
    /\ calls = <<None, "xyz", "abc">>
    /\ served = <<"xyz", "abc">>
    /\ attempts = 2

\* every page served so far carried a continuation token
AllTokens == \A i \in 1..Len(served) : served[i] # None

\* C23: the first page that arrives without a continuation token is the
\* last request of the walk: the walk then ends well and no list_tasks call
\* follows.  While every page carries a token and no call fails the walk
\* does not end, whatever the number of pages: it stands at the head of its
\* loop with the next call to make.
C23_WalkEndsOnlyWithoutToken ==
    /\ \A i \in 1..Len(served) :
          served[i] = None =>
              /\ i = Len(served)
              /\ Len(calls) = i
              /\ pc \in {"done", "idle"}
              /\ wpc \in {"calling", "done"}
              /\ wpc = "done" => wresult.kind = "Ok"
    /\ wpc = "done" /\ wresult.kind = "Ok" =>
          served # <<>> /\ served[Len(served)] = None
    /\ AllTokens /\ wresult.kind = None /\ pc = "idle" =>
          /\ wpc = "loop"
          /\ Len(calls) = Len(served)
          /\ served # <<>> => last_token = served[Len(served)]
          /\ Len(calls) < MaxCalls => ENABLED WalkCall

C23_Witness ==
    /\ wpc = "loop"
    /\ walker = "list_all_tasks"
    /\ Len(server) = 1
    /\ Len(calls) = MaxCalls
    /\ Len(served) = MaxCalls
    /\ AllTokens
    /\ Len(printed) = MaxCalls

\* the walk has ended on the first page without a token
C23_EndWitness ==
    /\ wpc = "done"
    /\ wresult.kind = "Ok"
    /\ Len(server) = 3
    /\ served = <<"abc", None>>
    /\ calls = <<None, "abc">>

\* the call of the walk that is in hand, or was the last, has failed: its
\* retries are over and it gave an error, or the loop has left it behind
\* without a page
PageFailed ==
    \/ wpc = "calling" /\ pc = "done" /\ result.kind # "Ok"
    \/ wpc \in {"loop", "done"} /\ Len(calls) = Len(served) + 1

\* C28: when the list_tasks call for a page of a walk fails, its own
\* retries over, the walk ends at once with that error: the failed call is
\* the last call of the walk, no call for a later page can follow, and the
\* walk does not end well, whatever the pages gathered before.
C28_FailedPageEndsWalk ==
    /\ PageFailed =>
          /\ Len(calls) = Len(served) + 1
          /\ wresult.kind \in {None, "Err"}
          /\ ~ENABLED WalkCall
          /\ wpc # "calling" => wpc = "done" /\ wresult.kind = "Err"
    /\ wresult.kind = "Err" => PageFailed /\ wpc = "done"
    /\ wresult.kind = "Ok" => Len(calls) = Len(served)

\* a later page of list_all_tasks failed after pages were printed
C28_Witness ==
    /\ walker = "list_all_tasks"
    /\ wpc = "done"
    /\ wresult.kind = "Err"
    /\ Len(calls) >= 2
    /\ Len(printed) = Len(calls) - 1

\* print_status_table gave up on a later page after its three retries
C28_RetriedWitness ==
    /\ walker = "print_status_table"
    /\ wpc = "calling" /\ pc = "done" /\ result.kind = "Reqwest"
    /\ attempts = Len(WalkerSchedule(walker)) + 1
    /\ Len(served) >= 1

LastServed == served[Len(served)]

\* C29: the walk goes on whenever next_page_token is present, the empty
\* string included: a page whose token is "" does not end the walk, and the
\* next list_tasks call carries "" as its page_token.
C29_EmptyTokenContinuesWalk ==
    /\ \A i \in 1..Len(served) :
          served[i] = "" =>
              /\ i < Len(calls) => calls[i + 1] = ""
              /\ i = Len(calls) =>
                    /\ wpc \in {"calling", "loop"}
                    /\ wresult.kind = None
                    /\ wpc = "loop" =>
                          /\ last_token = ""
                          /\ Len(calls) < MaxCalls => ENABLED WalkCall
    /\ wpc = "calling" /\ calls[Len(calls)] = "" /\ pc # "idle" =>
          req.page_token = ""

\* a page came with the empty token and the next call carries it
C29_Witness ==
    /\ Len(served) >= 1
    /\ served[1] = ""
    /\ Len(calls) = 2
    /\ calls[2] = ""
    /\ wpc = "calling"
    /\ pc = "ready"
    /\ req.page_token = ""

(***************************************************************************)
(* Properties of the accessors of TaskResponse (specification AccessSpec). *)
(***************************************************************************)
\* C18: called on any TaskResponse, as_minimal and into_minimal return the
\* task inside when the variant is Minimal and nothing when it is not;
\* as_task and into_task return the task inside when the variant is Basic or
\* Full and nothing when it is not.  So of the two families exactly one
\* returns something for any one value.
C18_AccessorsMatchTag ==
    /\ accessed.fn \in {"as_minimal", "into_minimal"} =>
          accessed.out = IF accessed.self.tag = "Minimal"
                         THEN <<Inner(accessed.self)>> ELSE <<>>
    /\ accessed.fn \in {"as_task", "into_task"} =>
          accessed.out = IF accessed.self.tag \in {"Basic", "Full"}
                         THEN <<Inner(accessed.self)>> ELSE <<>>
    /\ response # <<>> =>
          /\ (as_minimal(response[1]) # <<>>) # (as_task(response[1]) # <<>>)
          /\ (into_minimal(response[1]) # <<>>) # (into_task(response[1]) # <<>>)
          /\ as_minimal(response[1]) = into_minimal(response[1])
          /\ as_task(response[1]) = into_task(response[1])

C18_Witness ==
    /\ response # <<>>
    /\ accessed.fn = "as_task"
    /\ accessed.self.tag = "Basic"
    /\ accessed.out = <<TaskObj("a", "RUNNING", "name", "executors")>>
    /\ as_minimal(response[1]) = <<>>

C14_MissingUrlOnly ==
    /\ bpc = "built" /\ builder.url = <<>> =>
          built = BuildResult("Missing", "url", <<>>)
    /\ bpc = "built" /\ builder.url # <<>> =>
          /\ built.kind \in {"Ok", "Reqwest"}
          /\ built.kind = "Ok" =>
                /\ Len(built.client) = 1
                /\ built.client[1].connect_timeout =
                      IF builder.connect_timeout = <<>> THEN 60
                      ELSE builder.connect_timeout[1]
                /\ built.client[1].read_timeout =
                      IF builder.read_timeout = <<>> THEN 60
                      ELSE builder.read_timeout[1]
                /\ built.client[1].headers = builder.headers
    /\ bpc = "panicked" => built = NotBuilt
    /\ built.kind = "Missing" => built.field = "url"

C14_Witness ==
    /\ bpc = "built"
    /\ builder.url = <<>>
    /\ builder.headers = {<<"Authorization", "Basic abc">>}
    /\ builder.connect_timeout = <<2>>
    /\ builder.read_timeout = <<1>>
    /\ built.kind = "Missing"

\* a client built from a URL alone: both timeouts are the defaults
C14_DefaultsWitness ==
    /\ bpc = "built"
    /\ builder.url # <<>>
    /\ builder.headers = {}
    /\ builder.connect_timeout = <<>>
    /\ builder.read_timeout = <<>>
    /\ built.kind = "Ok"
    /\ built.client[1].connect_timeout = 60

(***************************************************************************)
(* Properties of the ServiceInfo conversion (specification CodecSpec).     *)
(***************************************************************************)
\* C15: a ServiceInfo with every field populated, converted to JSON and the
\* JSON converted back, gives Ok with a value equal to the original.
C15_ServiceInfoRoundTrip ==
    deserialized # NotConverted =>
        /\ deserialized.kind = "Ok"
        /\ deserialized.value = info

C15_Witness ==
    /\ deserialized.kind = "Ok"
    /\ info[1].created_at = <<DateTime(1725740855, 345673000)>>
    /\ serialized[1].v.createdAt = JString(Rfc3339(1725740855, 6, 345673))
    /\ serialized[1].v.organization.v.url.v = <<"http://localhost:4000", "/">>
    /\ Len(info[1].storage[1]) = 2
    /\ deserialized.value[1].organization.url.path = <<"/">>

(***************************************************************************)
(* Properties of concurrent calls (specification PairSpec).                *)
(***************************************************************************)
\* the failures of a call's own attempts that lead to a retry
OwnTransient(k, i) == k.log[i] \in {"conn_fail", "server_error", "recv_fail", "bad_body"}
                      /\ ~(k.req.method = "GET" /\ k.log[i] = "bad_body")

\* the waits a call has taken, counted from its own record: one after each
\* answer but the one that ended it
OwnWaits(k) == IF k.pc = "done" THEN Len(k.log) - 1 ELSE Len(k.log)

\* C19: with two calls running concurrently on one client, each with its own
\* schedule, the waits a call has left are its own schedule less one wait
\* for each of its own failed attempts, and its attempts are counted by its
\* own answers: it goes on exactly while its own attempts fail transiently
\* and its own schedule has a wait left, and makes at most L+1 attempts for
\* its own L, whatever the other call's schedule, failures and waits.
C19_SchedulesArePerCall ==
    \A c \in CallIds :
        LET k == concurrent[c]
            L == Len(k.schedule)
        IN k.pc # "idle" =>
            /\ k.retries = SubSeq(k.schedule, OwnWaits(k) + 1, L)
            /\ k.attempts <= L + 1
            /\ k.attempts = IF k.pc = "inflight" THEN Len(k.log) + 1 ELSE Len(k.log)
            /\ \A i \in 1..(Len(k.log) - 1) : OwnTransient(k, i)
            /\ k.pc # "done" => \A i \in 1..Len(k.log) : OwnTransient(k, i)
            /\ k.pc = "done" =>
                  /\ k.log # <<>>
                  /\ ~OwnTransient(k, Len(k.log)) \/ Len(k.log) = L + 1
                  /\ k.result.attempt = Len(k.log)

C19_Witness ==
    /\ concurrent["first"].pc = "done"
    /\ concurrent["first"].schedule = <<1, 2>>
    /\ concurrent["first"].log = <<"conn_fail", "conn_fail", "conn_fail">>
    /\ concurrent["second"].pc = "sleeping"
    /\ concurrent["second"].schedule = <<2, 2>>
    /\ concurrent["second"].retries = <<2>>
    /\ concurrent["second"].log = <<"conn_fail">>

(***************************************************************************)
(* Properties of the requested URL (specification JoinSpec).               *)
(***************************************************************************)
\* the pieces the client's own constants are made of
InternalPieces == {"service-info", "tasks", "/", ":cancel"}

\* p is the beginning of q
IsPrefix(p, q) == Len(p) <= Len(q) /\ SubSeq(q, 1, Len(p)) = p

\* C24: the endpoint a call joins to the base URL is made of the client's
\* constants alone (and the encoded parameters), with no path text of the
\* caller in it; the join succeeds; and the URL requested is the base
\* URL's origin with a path that begins with the base URL's path.
C24_EndpointsInternalAndUnderBase ==
    joined # NotJoined =>
        /\ \A i \in 1..Len(joined.endpoint) :
              \/ joined.endpoint[i] \in InternalPieces
              \/ i = Len(joined.endpoint) /\ <<joined.endpoint[i]>> \in ParamStrings
        /\ joined.out.kind = "Ok"
        /\ joined.out.url[1].origin = joined.base[1].origin
        /\ IsPrefix(joined.base[1].path, joined.out.url[1].path)

\* C30: in a get_task or list_tasks call the view asked of the server and
\* the variant the answer is wrapped in come from the same value of the
\* caller: a view parameter in the query string of the requested URL is the
\* upper-case name of the variant, and a request without a view parameter
\* is wrapped as Minimal.
C30_ViewSentIsViewDecoded ==
    joined.op \in {"get_task", "list_tasks"} /\ joined.out.kind = "Ok" =>
        LET query == joined.out.url[1].query
        IN IF query \in {None, "?"}
           THEN joined.tag = "Minimal"
           ELSE query = "?view=" \o ViewQueryName(joined.tag)

\* the id of a get_task call is a task id: it holds no "?" and no "/"
PlainId == joined.id = <<"a">>

\* the calls that give a task id ask for the view they decode
ViewSentIsViewDecodedOfPlainIds == PlainId \/ joined.op = "list_tasks" => C30_ViewSentIsViewDecoded

====
